---- MODULE Spec2Model ----
(***************************************************************************)
(* BeTon media library: the scanning / caching engine.                     *)
(*                                                                         *)
(*   CacheManager  (src/CacheManager.cpp)  one looper owning the map       *)
(*   MediaScanner  (src/MediaScanner.cpp)  one worker per configured root  *)
(*   MetadataHandler (src/MetadataHandler.cpp) direct metadata edits       *)
(*                                                                         *)
(* Paths are sequences of characters (an extension is one element), so    *)
(* that BString::StartsWith and EndsWith are the prefix / suffix tests on  *)
(* the sequence.                                                           *)
(***************************************************************************)
EXTENDS Integers, Sequences, FiniteSets, TLC

\* ------------------------------------------------------------------ bounds
MaxEnvOps == 2      \* changes made to the disk / configuration / tags
MaxStops == 1       \* scanners destroyed while they run (at shutdown)
MaxCount == 4       \* the progress counter of a scanner stops counting here
MaxRatingIn == 12   \* ratings handed to the tag writer are 0..MaxRatingIn
MaxLarge == 120     \* the files of the large directory /l
MaxRescans == 1     \* rescans requested while a scan is running

\* ------------------------------------------------------- program constants
FastBatchLimit == 50
FullBatchLimit == 100
RatingMax == 10

\* ----------------------------------------------------------------- strings
StartsWith(s, p) == Len(p) <= Len(s) /\ SubSeq(s, 1, Len(p)) = p
EndsWith(s, p) == Len(p) <= Len(s) /\ SubSeq(s, Len(s) - Len(p) + 1, Len(s)) = p
\* position of the last "/" of a path
LastSlash(p) == CHOOSE i \in 1..Len(p) : p[i] = "/" /\ \A j \in (i+1)..Len(p) : p[j] # "/"
Leaf(p) == SubSeq(p, LastSlash(p) + 1, Len(p))
ParentOf(p) == SubSeq(p, 1, LastSlash(p) - 1)
DigitChars == <<"0", "1", "2", "3", "4", "5", "6", "7", "8", "9">>

\* --------------------------------------------------- the directory tree
\*   /m            configured root
\*   /m/s          configured root nested in /m
\*   /m/s/b.mp3
\*   /m/s/.h       hidden entry
\*   /m/s/u        symbolic link to /m, when it has been created
\*   /m2           configured root whose name has "/m" as a string prefix
\*   /m2/c.mp3
\*   /l            a directory of MaxLarge files, /l/001.mp3 ...
RootM == <<"/", "m">>
RootS == <<"/", "m", "/", "s">>
RootM2 == <<"/", "m", "2">>
FileB == <<"/", "m", "/", "s", "/", "b", ".mp3">>
FileC == <<"/", "m", "2", "/", "c", ".mp3">>
HiddenH == <<"/", "m", "/", "s", "/", ".", "h">>
LinkUp == <<"/", "m", "/", "s", "/", "u">>
Links == {LinkUp}
\* the entry GetNextEntry(&entry, true) yields: a link is traversed
LinkTarget(e) == IF e = LinkUp THEN RootM ELSE e
Dirs == {RootM, RootS, RootM2}
Files == {FileB, FileC}
NoBase == <<>>
RootL == <<"/", "l">>
LargeFile(k) ==
  <<"/", "l", "/", DigitChars[(k \div 100) + 1], DigitChars[((k \div 10) % 10) + 1],
    DigitChars[(k % 10) + 1], ".mp3">>
LargeFiles == {LargeFile(k) : k \in 1..MaxLarge}
LargeIndex(f) == CHOOSE k \in 1..MaxLarge : LargeFile(k) = f

DirEntries(d) ==
  IF d = RootM THEN <<RootS>>
  ELSE IF d = RootS THEN <<FileB, HiddenH, LinkUp>>
  ELSE IF d = RootM2 THEN <<FileC>>
  ELSE IF d = RootL THEN [k \in 1..MaxLarge |-> LargeFile(k)]
  ELSE <<>>

SupportedExts == {".mp3", ".wav", ".flac", ".ogg", ".m4a", ".aac", ".wma"}
IsSupportedAudioFile(path) == \E e \in SupportedExts : EndsWith(path, <<e>>)

\* ------------------------------------------------------------- MediaItem
DefaultItem ==
  [path |-> <<>>, base |-> NoBase, title |-> "", artist |-> "", album |-> "",
   genre |-> "", year |-> 0, track |-> 0, disc |-> 0, duration |-> 0,
   bitrate |-> 0, size |-> 0, mtime |-> 0, inode |-> 0, missing |-> FALSE,
   rating |-> 0, mbAlbumId |-> "", mbArtistId |-> "", mbTrackId |-> "",
   albumArtist |-> "", composer |-> "", comment |-> "", trackTotal |-> 0,
   discTotal |-> 0, sampleRate |-> 0, channels |-> 0]

\* ---------------------------------------------------------------- TagData
DefaultTagData ==
  [title |-> "", artist |-> "", album |-> "", genre |-> "", comment |-> "",
   year |-> 0, track |-> 0, albumArtist |-> "", composer |-> "",
   trackTotal |-> 0, disc |-> 0, discTotal |-> 0,
   lengthSec |-> 0, bitrate |-> 0, sampleRate |-> 0, channels |-> 0,
   mbAlbumID |-> "", mbArtistID |-> "", mbTrackID |-> "",
   acoustId |-> "", acoustIdFp |-> "", rating |-> 0]
\* the BString fields and the uint32 fields of TagData
StringFields == {"title", "artist", "album", "genre", "comment", "albumArtist",
                 "composer", "mbAlbumID", "mbArtistID", "mbTrackID",
                 "acoustId", "acoustIdFp"}
UintFields == {"year", "track", "trackTotal", "disc", "discTotal",
               "lengthSec", "bitrate", "sampleRate", "channels", "rating"}
\* BString::IsEmpty, or == 0 for a number
IsEmptyField(td, f) == IF f \in StringFields THEN td[f] = "" ELSE td[f] = 0

\* -------------------------------------------------- what is on the disk
\* embedded tags of a file as TagLib returns them
InitTags(p) ==
  IF p = FileC
  THEN [title |-> "TC", artist |-> "ArtC", album |-> "AlbC", genre |-> "Rock",
        comment |-> "", year |-> 1999, track |-> 3, disc |-> 1,
        duration |-> 200, bitrate |-> 320,
        mbTrackId |-> "mbt-c", mbAlbumId |-> "mba-c", mbArtistId |-> "mbr-c"]
  ELSE [title |-> "", artist |-> "", album |-> "", genre |-> "",
        comment |-> "", year |-> 0, track |-> 0, disc |-> 0,
        duration |-> 0, bitrate |-> 0,
        mbTrackId |-> "", mbAlbumId |-> "", mbArtistId |-> ""]

\* a file TagLib throws on, and what ProcessFile is left with after its
\* catch (...): the values it had initialised
Unreadable == [throws |-> TRUE]
Throws(tg) == "throws" \in DOMAIN tg
ExtractTags(tg) ==
  IF Throws(tg)
  THEN [title |-> "", artist |-> "", album |-> "", genre |-> "",
        comment |-> "", year |-> 0, track |-> 0, disc |-> 0,
        duration |-> 0, bitrate |-> 0,
        mbTrackId |-> "", mbAlbumId |-> "", mbArtistId |-> ""]
  ELSE tg

\* a Media:Rating attribute is absent ({}) or holds one int32 ({v})
NoAttr == {}
Attr(v) == {v}
AttrValue(raw) == CHOOSE v \in raw : TRUE

\* native attributes of a file; rating is the raw Media:Rating attribute
InitAttrs(p) ==
  IF p = FileC
  THEN [title |-> "", artist |-> "", album |-> "", genre |-> "",
        year |-> 0, track |-> 0, disc |-> 0, lengthSec |-> 0, bitrate |-> 0,
        mbAlbumID |-> "", mbArtistID |-> "", mbTrackID |-> "",
        rating |-> Attr(3)]
  ELSE [title |-> "", artist |-> "ArtB", album |-> "AlbB", genre |-> "Jazz",
        year |-> 2001, track |-> 5, disc |-> 2, lengthSec |-> 100,
        bitrate |-> 128, mbAlbumID |-> "", mbArtistID |-> "",
        mbTrackID |-> "", rating |-> NoAttr]

InodeOf(p) == IF p = FileB THEN 12 ELSE IF p = FileC THEN 13 ELSE 100 + LargeIndex(p)
InitStat == [mtime |-> 100, size |-> 500]
\* the values another program writes to Media:Rating
RatingAttrValues == {Attr(7), Attr(12)}
\* the directories that are removed or unmounted
OfflineDirs == {RootM, RootS}

VARIABLES
  dirs,            \* directories.settings: the configured roots, in order
  online,          \* directories that exist and can be opened
  exists,          \* exists[f]: the file is present in its directory
  stat,            \* stat[f]: st_mtime and st_size of the file
  fileTags,        \* fileTags[f]: the embedded tags of the file
  fileAttrs,       \* fileAttrs[f]: the native attributes of the file
  fEntries,        \* CacheManager::fEntries, path -> MediaItem
  fActiveScanners, \* CacheManager::fActiveScanners
  cacheQueue,      \* the message queue of the CacheManager looper
  cacheFile,       \* media.cache as last written by SaveCache
  scanners,        \* the MediaScanner objects of the current scan
  ui,              \* what the registered listener (fTarget) has received
  hist,            \* bookkeeping of the current scan and of the bounds
  sync,            \* the MetadataHandler::SyncMetadata call in progress
  call             \* a call of one of TagSync's functions and its results

vars == <<dirs, online, exists, stat, fileTags, fileAttrs, fEntries,
          fActiveScanners, cacheQueue, cacheFile, scanners, ui, hist,
          sync, call>>
\* what the cache looper and the scanner workers leave alone
envVars == <<dirs, online, exists, stat, fileTags, fileAttrs, sync, call>>

\* ------------------------------------------------------------ file system
\* a directory can be opened when it and the directories above it exist
DirReachable(d) == \A r \in Dirs : StartsWith(d, r \o <<"/">>) \/ d = r => r \in online
FileOnDisk(f) == exists[f] /\ DirReachable(ParentOf(f))
IsDirectory(p) == p \in Dirs
\* BDirectory::GetNextEntry over the entries that are there
Listing(d) ==
  SelectSeq(DirEntries(d),
            LAMBDA e : IF IsDirectory(e) THEN e \in online
                       ELSE IF e \in Files \cup Links THEN exists[e] ELSE TRUE)
LeafString(p) == IF p = FileB THEN "b.mp3" ELSE "c.mp3"

\* (mutant) the value of the attribute is taken whatever it is
ReadBfsRating_Raw(raw) == IF raw = NoAttr THEN 0 ELSE AttrValue(raw)

\* (mutant) a value above 10 is read as 10
ReadBfsRating_Clamp(raw) ==
  IF raw = NoAttr \/ AttrValue(raw) < 1 THEN 0
  ELSE IF AttrValue(raw) > RatingMax THEN RatingMax ELSE AttrValue(raw)

\* TagSync::ReadBfsAttributes: the rating is taken only when within 1..10
ReadBfsRating(raw) ==
  IF raw # NoAttr /\ AttrValue(raw) >= 1 /\ AttrValue(raw) <= RatingMax
  THEN AttrValue(raw) ELSE 0
\* no attribute is read into disc, lengthSec or bitrate: they stay 0
ReadBfsAttributes(f) ==
  [fileAttrs[f] EXCEPT !.rating = ReadBfsRating(fileAttrs[f].rating),
                       !.disc = 0, !.lengthSec = 0, !.bitrate = 0]

\* (mutant) the value read is used as it is
FastRating_Raw(raw) == IF raw = NoAttr THEN 0 ELSE AttrValue(raw)

\* the rating the fast skip reads from Media:Rating
FastRating(raw) ==
  LET currentRating == IF raw = NoAttr THEN 0 ELSE AttrValue(raw)
  IN IF currentRating < 0 \/ currentRating > RatingMax THEN 0 ELSE currentRating

\* ------------------------------------------------------------------- maps
EmptyMap == [p \in {} |-> DefaultItem]
Put(m, k, v) == [x \in DOMAIN m \cup {k} |-> IF x = k THEN v ELSE m[x]]

\* ----------------------------------------------------------- MediaScanner
FreeScanner ==
  [pc |-> "free", fBasePath |-> NoBase, fCache |-> EmptyMap, stack |-> <<>>,
   pending |-> <<>>, fBatchBuffer |-> <<>>, fStopRequested |-> FALSE,
   fScannedDirs |-> 0, fFoundFiles |-> 0,
   found |-> <<>>, sent |-> <<>>, batches |-> 0, tagReads |-> 0,
   doneSent |-> FALSE,
   stopAt |-> "never"]

\* MediaScanner::MediaScanner + SetCache + Run + MSG_START_SCAN posted
NewScanner(base, snapshot) ==
  [FreeScanner EXCEPT !.pc = "waiting", !.fBasePath = base, !.fCache = snapshot]

\* the fields FlushBatch adds to the message for one item
BatchFields(item) ==
  [path |-> item.path, item_base |-> item.base, title |-> item.title,
   artist |-> item.artist, album |-> item.album, genre |-> item.genre,
   year |-> item.year, track |-> item.track, disc |-> item.disc,
   duration |-> item.duration, bitrate |-> item.bitrate, size |-> item.size,
   mtime |-> item.mtime, inode |-> item.inode, rating |-> item.rating]

\* (mutant) the buffer is not cleared after the message was built
FlushBatch_NoClear(sc) ==
  IF sc.fBatchBuffer = <<>>
  THEN [sc |-> sc, out |-> <<>>]
  ELSE [sc |-> [sc EXCEPT !.batches = @ + 1, !.sent = @ \o sc.fBatchBuffer],
        out |-> << [what |-> "MSG_MEDIA_BATCH", base |-> sc.fBasePath,
                    items |-> [i \in 1..Len(sc.fBatchBuffer) |->
                                 BatchFields(sc.fBatchBuffer[i])],
                    buffer |-> sc.fBatchBuffer] >>]

\* MediaScanner::FlushBatch: the message sent (none for an empty buffer) and
\* the scanner afterwards; buffer records what the items were made from
FlushBatch(sc) ==
  IF sc.fBatchBuffer = <<>>
  THEN [sc |-> sc, out |-> <<>>]
  ELSE [sc |-> [sc EXCEPT !.fBatchBuffer = <<>>, !.batches = @ + 1,
                          !.sent = @ \o sc.fBatchBuffer],
        out |-> << [what |-> "MSG_MEDIA_BATCH", base |-> sc.fBasePath,
                    items |-> [i \in 1..Len(sc.fBatchBuffer) |->
                                 BatchFields(sc.fBatchBuffer[i])],
                    buffer |-> sc.fBatchBuffer] >>]

\* (mutant) the buffer is flushed when it holds more than limit
Append2Batch_FlushAbove(sc, item, limit) ==
  LET sc1 == [sc EXCEPT !.fBatchBuffer = Append(@, item),
                        !.found = Append(@, item)]
  IN IF Len(sc1.fBatchBuffer) > limit THEN FlushBatch(sc1)
     ELSE [sc |-> sc1, out |-> <<>>]

\* push_back on fBatchBuffer, then FlushBatch when the buffer reached limit
Append2Batch(sc, item, limit) ==
  LET sc1 == [sc EXCEPT !.fBatchBuffer = Append(@, item),
                        !.found = Append(@, item)]
  IN IF Len(sc1.fBatchBuffer) >= limit THEN FlushBatch(sc1)
     ELSE [sc |-> sc1, out |-> <<>>]

\* ProcessFile, fast skip: mtime and size equal the snapshot's
FastSkip(sc, path) ==
  LET old == sc.fCache[path]
      currentRating == FastRating(fileAttrs[path].rating)
  IN IF currentRating = old.rating
     THEN [sc |-> sc, out |-> <<>>]
     ELSE Append2Batch(sc, [old EXCEPT !.rating = currentRating], FastBatchLimit)

\* ProcessFile, full read of a new or changed file
FullReadItem(path, st, tg, bfsData, hasBfsData) ==
  LET fill == (tg.title = "" \/ tg.artist = "") /\ hasBfsData
      pick(own, other, empty) == IF fill /\ own = empty THEN other ELSE own
      title1 == pick(tg.title, bfsData.title, "")
  IN [DefaultItem EXCEPT
        !.base = ParentOf(path),
        !.path = path,
        !.title = IF title1 = "" THEN LeafString(path) ELSE title1,
        !.artist = pick(tg.artist, bfsData.artist, ""),
        !.album = pick(tg.album, bfsData.album, ""),
        !.genre = pick(tg.genre, bfsData.genre, ""),
        !.year = pick(tg.year, bfsData.year, 0),
        !.track = pick(tg.track, bfsData.track, 0),
        !.disc = pick(tg.disc, bfsData.disc, 0),
        !.duration = pick(tg.duration, bfsData.lengthSec, 0),
        !.bitrate = pick(tg.bitrate, bfsData.bitrate, 0),
        !.size = st.size,
        !.mtime = st.mtime,
        !.inode = InodeOf(path),
        !.mbTrackId = "",
        !.mbAlbumId = "",
        !.mbArtistId = tg.mbArtistId,
        !.rating = IF hasBfsData THEN bfsData.rating ELSE 0]

\* (mutant) a file whose tag extraction throws is left out
FullRead_SkipOnThrow(sc, path) ==
  IF Throws(fileTags[path]) THEN [sc |-> sc, out |-> <<>>]
  ELSE Append2Batch([sc EXCEPT !.fFoundFiles = @ + 1, !.tagReads = @ + 1],
                    FullReadItem(path, stat[path], fileTags[path],
                                 ReadBfsAttributes(path), TRUE),
                    FullBatchLimit)

FullRead(sc, path) ==
  Append2Batch([sc EXCEPT !.fFoundFiles = @ + 1, !.tagReads = @ + 1],
               FullReadItem(path, stat[path], ExtractTags(fileTags[path]),
                            ReadBfsAttributes(path), TRUE),
               FullBatchLimit)

\* MediaScanner::ProcessFile
ProcessFile(sc, path) ==
  IF ~IsSupportedAudioFile(path) \/ ~FileOnDisk(path)
  THEN [sc |-> sc, out |-> <<>>]
  ELSE IF /\ DOMAIN sc.fCache # {}
          /\ path \in DOMAIN sc.fCache
          /\ sc.fCache[path].mtime = stat[path].mtime
          /\ sc.fCache[path].size = stat[path].size
       THEN FastSkip(sc, path)
       ELSE FullRead(sc, path)

\* ----------------------------------------------------------- CacheManager
\* BMessage::FindString / FindInt32: the value when the field is present
Find(m, name, default) == IF name \in DOMAIN m THEN m[name] ELSE default

\* (mutant) an update with an empty track id keeps the id that was known
AddOrUpdateEntry_KeepId(entries, entry) ==
  IF /\ entry.path \in DOMAIN entries
     /\ entries[entry.path].mbTrackId # ""
     /\ entry.mbTrackId = ""
  THEN Put(entries, entry.path,
           [entry EXCEPT !.mbTrackId = entries[entry.path].mbTrackId])
  ELSE Put(entries, entry.path, entry)

\* CacheManager::AddOrUpdateEntry
AddOrUpdateEntry(entries, entry) == Put(entries, entry.path, entry)

\* the MediaItem the MSG_MEDIA_BATCH handler builds for index i
BatchEntry(msg, i) ==
  LET m == msg.items[i]
  IN [DefaultItem EXCEPT
        !.base = Find(msg, "base", NoBase),
        !.path = Find(m, "path", <<>>),
        !.title = Find(m, "title", ""),
        !.artist = Find(m, "artist", ""),
        !.album = Find(m, "album", ""),
        !.genre = Find(m, "genre", ""),
        !.year = Find(m, "year", 0),
        !.track = Find(m, "track", 0),
        !.disc = Find(m, "disc", 0),
        !.duration = Find(m, "duration", 0),
        !.bitrate = Find(m, "bitrate", 0),
        !.size = Find(m, "size", 0),
        !.mtime = Find(m, "mtime", 0),
        !.inode = Find(m, "inode", 0),
        !.rating = Find(m, "rating", 0),
        !.mbAlbumId = Find(m, "mbAlbumId", ""),
        !.mbArtistId = Find(m, "mbArtistId", ""),
        !.mbTrackId = Find(m, "mbTrackId", "")]

RECURSIVE ApplyBatch(_, _, _)
ApplyBatch(entries, msg, i) ==
  IF i > Len(msg.items) THEN entries
  ELSE ApplyBatch(AddOrUpdateEntry(entries, BatchEntry(msg, i)), msg, i + 1)

\* the MediaItem the MSG_MEDIA_ITEM_FOUND handler builds
FoundEntry(msg) ==
  [DefaultItem EXCEPT
     !.path = Find(msg, "path", <<>>),
     !.base = Find(msg, "base", NoBase),
     !.title = Find(msg, "title", ""),
     !.artist = Find(msg, "artist", ""),
     !.album = Find(msg, "album", ""),
     !.genre = Find(msg, "genre", ""),
     !.year = Find(msg, "year", 0),
     !.track = Find(msg, "track", 0),
     !.disc = Find(msg, "disc", 0),
     !.duration = Find(msg, "duration", 0),
     !.bitrate = Find(msg, "bitrate", 0),
     !.size = Find(msg, "size", 0),
     !.mtime = Find(msg, "mtime", 0),
     !.inode = Find(msg, "inode", 0),
     !.mbAlbumId = Find(msg, "mbAlbumId", ""),
     !.mbArtistId = Find(msg, "mbArtistId", ""),
     !.mbTrackId = Find(msg, "mbTrackId", "")]

\* (mutant) the missing flag is not written
SaveItem_NoMissing(e) ==
  [path |-> e.path, base |-> e.base, title |-> e.title, artist |-> e.artist,
   album |-> e.album, genre |-> e.genre, year |-> e.year, track |-> e.track,
   disc |-> e.disc, duration |-> e.duration, bitrate |-> e.bitrate,
   size |-> e.size, mtime |-> e.mtime, inode |-> e.inode,
   rating |-> e.rating, mbAlbumId |-> e.mbAlbumId,
   mbArtistId |-> e.mbArtistId, mbTrackId |-> e.mbTrackId]

\* CacheManager::SaveCache: one record per entry, every field by name
SaveItem(e) ==
  [path |-> e.path, base |-> e.base, title |-> e.title, artist |-> e.artist,
   album |-> e.album, genre |-> e.genre, year |-> e.year, track |-> e.track,
   disc |-> e.disc, duration |-> e.duration, bitrate |-> e.bitrate,
   size |-> e.size, mtime |-> e.mtime, inode |-> e.inode,
   missing |-> e.missing, rating |-> e.rating, mbAlbumId |-> e.mbAlbumId,
   mbArtistId |-> e.mbArtistId, mbTrackId |-> e.mbTrackId]
SaveCache(entries) == {SaveItem(entries[p]) : p \in DOMAIN entries}

\* CacheManager::LoadCache: the MediaItem read from one "entry" message;
\* a field the message lacks takes the default given to GetString / GetInt32
LoadItem(item) ==
  [DefaultItem EXCEPT
     !.path = Find(item, "path", <<>>),
     !.base = Find(item, "base", NoBase),
     !.title = Find(item, "title", ""),
     !.artist = Find(item, "artist", ""),
     !.album = Find(item, "album", ""),
     !.genre = Find(item, "genre", ""),
     !.year = Find(item, "year", 0),
     !.track = Find(item, "track", 0),
     !.disc = Find(item, "disc", 0),
     !.duration = Find(item, "duration", 0),
     !.bitrate = Find(item, "bitrate", 0),
     !.size = Find(item, "size", 0),
     !.mtime = Find(item, "mtime", 0),
     !.inode = Find(item, "inode", 0),
     !.missing = Find(item, "missing", FALSE),
     !.mbAlbumId = Find(item, "mbAlbumId", ""),
     !.mbArtistId = Find(item, "mbArtistId", ""),
     !.mbTrackId = Find(item, "mbTrackId", ""),
     !.rating = Find(item, "rating", 0)]
\* fEntries after LoadCache: every item of the file under its path
LoadCache(file) ==
  [p \in {LoadItem(item).path : item \in file} |->
     LoadItem(CHOOSE item \in file : LoadItem(item).path = p)]
\* media.cache as LoadCache finds it: not there, not a flattened BMessage,
\* or an archive of "entry" messages
ArchiveFile(items) == [status |-> "ok", items |-> items]
MissingFile == [status |-> "missing", items |-> {}]
GarbledFile == [status |-> "garbled", items |-> {}]
\* the MSG_LOAD_CACHE handler: fEntries afterwards and the MSG_CACHE_LOADED
\* messages sent; LoadCache returns early when InitCheck or Unflatten fails
OnLoadCache(file) ==
  IF file.status # "ok"
  THEN [entries |-> EmptyMap, loaded |-> 0]
  ELSE [entries |-> LoadCache(file.items), loaded |-> 1]

\* CacheManager::MarkBaseOffline, the map afterwards
MarkBaseOffline(entries, basePath) ==
  [p \in DOMAIN entries |->
     IF StartsWith(p, basePath) THEN [entries[p] EXCEPT !.missing = TRUE]
     ELSE entries[p]]

\* (mutant) nothing is erased
Prune_KeepAll(entries, ds) == entries

\* StartScan step 1: entries of directories no longer monitored are erased
Prune(entries, ds) ==
  LET validBases == {ds[i] : i \in 1..Len(ds)}
      keep == {p \in DOMAIN entries : entries[p].base \in validBases}
  IN [p \in keep |-> entries[p]]

\* (mutant) a scanner is launched for every configured directory
SpawnLoop_SpawnAll(i, ds, st) ==
  [st EXCEPT !.spawned = [k \in 1..Len(ds) |-> NewScanner(ds[k], st.entries)],
             !.active = Len(ds)]

\* StartScan step 2: the loop over the configured directories
RECURSIVE SpawnLoop(_, _, _)
SpawnLoop(i, ds, st) ==
  IF i > Len(ds) THEN st
  ELSE IF ~DirReachable(ds[i])
       THEN SpawnLoop(i + 1, ds,
                      [st EXCEPT !.entries = MarkBaseOffline(@, ds[i]),
                                 !.offline = @ + 1])
       ELSE SpawnLoop(i + 1, ds,
                      [st EXCEPT !.spawned = Append(@, NewScanner(ds[i], st.entries)),
                                 !.active = @ + 1])

\* StartScan step 3: the existence check on the retained entries
MarkVanished(entries) ==
  [p \in DOMAIN entries |->
     IF ~FileOnDisk(p) /\ ~entries[p].missing
     THEN [entries[p] EXCEPT !.missing = TRUE] ELSE entries[p]]
Vanished(entries) == {p \in DOMAIN entries : ~FileOnDisk(p) /\ ~entries[p].missing}

\* ------------------------------------------------------------------- Init
\* no SyncMetadata call is in progress
NoSync == [pc |-> "idle", files |-> <<>>, src |-> <<>>, i |-> 0, out |-> <<>>,
           decided |-> {}]
\* no TagSync function has been called
NoCall == [op |-> "none"]

\* the directory configurations the user switches between
Configs == {<<RootM, RootS>>, <<RootM, RootM2>>, <<RootS>>, <<>>}

ZeroUi == [scanDone |-> 0, cacheLoaded |-> 0, baseOffline |-> 0,
           itemRemoved |-> 0, batch |-> 0, itemFound |-> 0]
\* hist: envOps / stops count against the bounds; the other fields describe
\* the scan begun by the last StartScan: the scanners it spawned, the
\* MSG_SCAN_DONE the cache has processed, its completion saves and forwarded
\* notifications, the map when StartScan returned (startEntries) and before
\* it ran (baseline), the paths it pruned, whether the disk, the settings or
\* the tags changed since it began (dirty) and whether it began right after
\* an earlier scan with no such change between (clean)
InitHist == [envOps |-> 0, stops |-> 0,
             started |-> FALSE, spawned |-> 0, dones |-> 0, saves |-> 0,
             forwarded |-> 0, startEntries |-> EmptyMap, doneAt |-> <<>>,
             dirty |-> FALSE, clean |-> FALSE, baseline |-> EmptyMap,
             pruned |-> {}]

Init ==
  /\ dirs \in Configs
  /\ online \in {Dirs, Dirs \ {RootM}}
  /\ exists = [f \in Files \cup Links |-> f \in Files]
  /\ stat = [f \in Files |-> InitStat]
  /\ fileTags = [f \in Files |-> InitTags(f)]
  /\ fileAttrs = [f \in Files |-> InitAttrs(f)]
  /\ fEntries = EmptyMap
  /\ fActiveScanners = 0
  /\ cacheQueue = <<>>
  /\ cacheFile = {}
  /\ scanners = <<>>
  /\ ui = ZeroUi
  /\ hist = InitHist
  /\ sync = NoSync
  /\ call = NoCall

Running(sc) == sc.pc \in {"waiting", "outer", "inner"}
\* no message is queued and no worker thread is alive
Quiescent ==
  /\ cacheQueue = <<>>
  /\ \A i \in 1..Len(scanners) : ~Running(scanners[i])

\* --------------------------------------------------- CacheManager handlers
\* (mutant) StartScan leaves the completion to a scan-done signal
StartScan_NoFinish ==
  LET pruned == Prune(fEntries, dirs)
      alive == SelectSeq(scanners, Running)
      loop == SpawnLoop(1, dirs, [entries |-> pruned, spawned |-> <<>>,
                                  active |-> 0, offline |-> 0])
      checked == MarkVanished(loop.entries)
      finish == FALSE
  IN /\ fEntries' = checked
     /\ fActiveScanners' = loop.active
     /\ scanners' = alive \o loop.spawned
     /\ cacheFile' = IF finish THEN SaveCache(checked) ELSE cacheFile
     /\ ui' = [ZeroUi EXCEPT !.cacheLoaded = 1,
                             !.baseOffline = loop.offline,
                             !.itemRemoved = Cardinality(Vanished(loop.entries)),
                             !.scanDone = IF finish THEN 1 ELSE 0]
     /\ hist' = [hist EXCEPT !.started = TRUE,
                             !.spawned = loop.active,
                             !.dones = 0,
                             !.saves = IF finish THEN 1 ELSE 0,
                             !.forwarded = IF finish THEN 1 ELSE 0,
                             !.startEntries = checked,
                             !.doneAt = <<>>,
                             !.dirty = FALSE,
                             !.clean = hist.started /\ ~hist.dirty,
                             !.baseline = fEntries,
                             !.pruned = DOMAIN fEntries \ DOMAIN pruned]

\* CacheManager::StartScan
StartScan ==
  LET pruned == Prune(fEntries, dirs)
      alive == SelectSeq(scanners, Running)
      loop == SpawnLoop(1, dirs, [entries |-> pruned, spawned |-> <<>>,
                                  active |-> 0, offline |-> 0])
      checked == MarkVanished(loop.entries)
      finish == loop.active = 0
  IN /\ fEntries' = checked
     /\ fActiveScanners' = loop.active
     /\ scanners' = alive \o loop.spawned
     /\ cacheFile' = IF finish THEN SaveCache(checked) ELSE cacheFile
     /\ ui' = [ZeroUi EXCEPT !.cacheLoaded = 1,
                             !.baseOffline = loop.offline,
                             !.itemRemoved = Cardinality(Vanished(loop.entries)),
                             !.scanDone = IF finish THEN 1 ELSE 0]
     /\ hist' = [hist EXCEPT !.started = TRUE,
                             !.spawned = loop.active,
                             !.dones = 0,
                             !.saves = IF finish THEN 1 ELSE 0,
                             !.forwarded = IF finish THEN 1 ELSE 0,
                             !.startEntries = checked,
                             !.doneAt = <<>>,
                             !.dirty = FALSE,
                             !.clean = hist.started /\ ~hist.dirty,
                             !.baseline = fEntries,
                             !.pruned = DOMAIN fEntries \ DOMAIN pruned]

\* MSG_MEDIA_BATCH
OnMediaBatch(msg) ==
  /\ fEntries' = ApplyBatch(fEntries, msg, 1)
  /\ ui' = [ui EXCEPT !.batch = @ + 1]
  /\ UNCHANGED <<fActiveScanners, scanners, cacheFile, hist>>

\* (mutant) the completion branch taken at every scan-done
OnScanDone_EveryDone ==
  /\ fActiveScanners' = fActiveScanners - 1
  /\ cacheFile' = SaveCache(fEntries)
  /\ ui' = [ui EXCEPT !.scanDone = @ + 1]
  /\ hist' = [hist EXCEPT !.dones = @ + 1, !.saves = @ + 1,
                          !.forwarded = @ + 1,
                          !.doneAt = Append(@, hist.dones + 1)]
  /\ UNCHANGED <<fEntries, scanners>>

\* MSG_SCAN_DONE
OnScanDone ==
  LET left == fActiveScanners - 1
      last == left <= 0
  IN /\ fActiveScanners' = left
     /\ cacheFile' = IF last THEN SaveCache(fEntries) ELSE cacheFile
     /\ ui' = IF last THEN [ui EXCEPT !.scanDone = @ + 1] ELSE ui
     /\ hist' = [hist EXCEPT !.dones = @ + 1,
                             !.saves = IF last THEN @ + 1 ELSE @,
                             !.forwarded = IF last THEN @ + 1 ELSE @,
                             !.doneAt = IF last THEN Append(@, hist.dones + 1) ELSE @]
     /\ UNCHANGED <<fEntries, scanners>>

\* MSG_MEDIA_ITEM_FOUND
OnItemFound(msg) ==
  /\ fEntries' = AddOrUpdateEntry(fEntries, FoundEntry(msg))
  /\ cacheFile' = SaveCache(fEntries')
  /\ ui' = [ui EXCEPT !.itemFound = @ + 1]
  /\ UNCHANGED <<fActiveScanners, scanners, hist>>

\* CacheManager::MessageReceived on the head of the looper's queue
CacheReceive ==
  /\ cacheQueue # <<>>
  /\ cacheQueue' = Tail(cacheQueue)
  /\ LET msg == Head(cacheQueue)
     IN CASE msg.what = "MSG_RESCAN" -> StartScan
          [] msg.what = "MSG_MEDIA_BATCH" -> OnMediaBatch(msg)
          [] msg.what = "MSG_SCAN_DONE" -> OnScanDone
          [] msg.what = "MSG_MEDIA_ITEM_FOUND" -> OnItemFound(msg)
  /\ UNCHANGED envVars

\* ------------------------------------------------- MediaScanner worker
cacheVars == <<fEntries, fActiveScanners, cacheFile>>

\* MSG_START_SCAN releases the semaphore; the worker wakes in WorkerMethod
WorkerBegin(i) ==
  /\ scanners[i].pc = "waiting"
  /\ scanners' = [scanners EXCEPT ![i] =
        IF @.fStopRequested
        THEN [@ EXCEPT !.pc = "exited"]
        ELSE [@ EXCEPT !.pc = "outer", !.stack = <<scanners[i].fBasePath>>]]
  /\ UNCHANGED <<envVars, cacheVars, cacheQueue, ui, hist>>

\* one iteration of while (!stack.empty() && !fStopRequested) up to the
\* first GetNextEntry
OpenDir(i) ==
  LET sc == scanners[i]
      currentPath == sc.stack[Len(sc.stack)]
      rest == SubSeq(sc.stack, 1, Len(sc.stack) - 1)
  IN /\ sc.pc = "outer"
     /\ sc.stack # <<>>
     /\ ~sc.fStopRequested
     /\ scanners' = [scanners EXCEPT ![i] =
           IF ~DirReachable(currentPath)
           THEN [@ EXCEPT !.stack = rest]
           ELSE [@ EXCEPT !.stack = rest,
                          !.fScannedDirs = IF @ < MaxCount THEN @ + 1 ELSE @,
                          !.pending = Listing(currentPath),
                          !.pc = IF Listing(currentPath) = <<>> THEN "outer" ELSE "inner"]]
     /\ UNCHANGED <<envVars, cacheVars, cacheQueue, ui, hist>>

\* one iteration of while (dir.GetNextEntry(&entry, true) == B_OK)
NextEntry(i) ==
  LET sc == scanners[i]
      entry == LinkTarget(Head(sc.pending))
      more == Tail(sc.pending)
      back(s) == [s EXCEPT !.pending = more,
                           !.pc = IF more = <<>> THEN "outer" ELSE "inner"]
      res == IF sc.fStopRequested
             THEN [sc |-> [sc EXCEPT !.pending = <<>>, !.pc = "outer"], out |-> <<>>]
             ELSE IF Leaf(entry)[1] = "."
             THEN [sc |-> back(sc), out |-> <<>>]
             ELSE IF IsDirectory(entry)
             THEN [sc |-> back([sc EXCEPT !.stack = Append(@, entry)]), out |-> <<>>]
             ELSE LET r == ProcessFile(sc, entry)
                  IN [sc |-> back(r.sc), out |-> r.out]
  IN /\ sc.pc = "inner"
     /\ scanners' = [scanners EXCEPT ![i] = res.sc]
     /\ cacheQueue' = cacheQueue \o res.out
     /\ UNCHANGED <<envVars, cacheVars, ui, hist>>

\* (mutant) the worker returns without the final FlushBatch
Finish_NoFlush(i) ==
  LET sc == scanners[i]
      report == ~sc.fStopRequested
  IN /\ sc.pc = "outer"
     /\ sc.stack = <<>> \/ sc.fStopRequested
     /\ scanners' = [scanners EXCEPT ![i] =
           [sc EXCEPT !.pc = "exited", !.doneSent = report]]
     /\ cacheQueue' = cacheQueue \o
           (IF report THEN <<[what |-> "MSG_SCAN_DONE"]>> ELSE <<>>)
     /\ ui' = IF report THEN [ui EXCEPT !.scanDone = @ + 1] ELSE ui
     /\ UNCHANGED <<envVars, cacheVars, hist>>

\* the end of WorkerMethod: FlushBatch, then MSG_SCAN_DONE to the cache and
\* to the live target unless a stop was requested
Finish(i) ==
  LET sc == scanners[i]
      fl == FlushBatch(sc)
      report == ~sc.fStopRequested
  IN /\ sc.pc = "outer"
     /\ sc.stack = <<>> \/ sc.fStopRequested
     /\ scanners' = [scanners EXCEPT ![i] =
           [fl.sc EXCEPT !.pc = "exited", !.doneSent = report]]
     /\ cacheQueue' = cacheQueue \o fl.out \o
           (IF report THEN <<[what |-> "MSG_SCAN_DONE"]>> ELSE <<>>)
     /\ ui' = IF report THEN [ui EXCEPT !.scanDone = @ + 1] ELSE ui
     /\ UNCHANGED <<envVars, cacheVars, hist>>

\* MediaScanner::~MediaScanner while the worker is alive
StopScanner(i) ==
  /\ Running(scanners[i])
  /\ ~scanners[i].fStopRequested
  /\ hist.stops < MaxStops
  /\ scanners' = [scanners EXCEPT ![i].fStopRequested = TRUE,
                                  ![i].stopAt = scanners[i].pc]
  /\ hist' = [hist EXCEPT !.stops = @ + 1]
  /\ UNCHANGED <<envVars, cacheVars, cacheQueue, ui>>

\* ------------------------------------------------------------ environment
\* DirectoryManagerWindow MSG_DIR_OK: the cache is asked to rescan
PostRescan ==
  /\ Quiescent
  /\ hist.stops = 0
  /\ cacheQueue' = Append(cacheQueue, [what |-> "MSG_RESCAN"])
  /\ UNCHANGED <<envVars, cacheVars, scanners, ui, hist>>

EnvStep == /\ Quiescent
           /\ hist.stops = 0
           /\ hist.envOps < MaxEnvOps
           /\ hist' = [hist EXCEPT !.envOps = @ + 1, !.dirty = TRUE]
           /\ UNCHANGED <<cacheVars, scanners, ui>>

\* a file is deleted, or comes back as it was
ToggleFile(f) ==
  /\ EnvStep
  /\ exists' = [exists EXCEPT ![f] = ~@]
  /\ UNCHANGED <<dirs, online, stat, fileTags, fileAttrs, cacheQueue, sync, call>>

\* a file is rewritten: its modification time changes
ModifyFile(f) ==
  /\ EnvStep
  /\ exists[f]
  /\ stat' = [stat EXCEPT ![f].mtime = @ + 1]
  /\ UNCHANGED <<dirs, online, exists, fileTags, fileAttrs, cacheQueue, sync, call>>

\* another program writes or removes the Media:Rating attribute
SetRatingAttr(f, r) ==
  /\ EnvStep
  /\ exists[f]
  /\ r # fileAttrs[f].rating
  /\ fileAttrs' = [fileAttrs EXCEPT ![f].rating = r]
  /\ UNCHANGED <<dirs, online, exists, stat, fileTags, cacheQueue, sync, call>>

\* a volume is unmounted or mounted, a directory removed or restored
ToggleOnline(d) ==
  /\ EnvStep
  /\ online' = IF d \in online THEN online \ {d} ELSE online \cup {d}
  /\ UNCHANGED <<dirs, exists, stat, fileTags, fileAttrs, cacheQueue, sync, call>>

\* DirectoryManagerWindow::SaveSettings with another list of directories
Configure(c) ==
  /\ EnvStep
  /\ c # dirs
  /\ dirs' = c
  /\ UNCHANGED <<online, exists, stat, fileTags, fileAttrs, cacheQueue, sync, call>>

\* ------------------------------------------------------- MetadataHandler
\* TagSync::ReadTags: the embedded tags, each empty field filled from the
\* native attributes
ReadTags(tg, bfsData) ==
  LET or(own, other, empty) == IF own = empty THEN other ELSE own
  IN [DefaultTagData EXCEPT
        !.title = or(tg.title, bfsData.title, ""),
        !.artist = or(tg.artist, bfsData.artist, ""),
        !.album = or(tg.album, bfsData.album, ""),
        !.genre = or(tg.genre, bfsData.genre, ""),
        !.comment = tg.comment,
        !.year = or(tg.year, bfsData.year, 0),
        !.track = or(tg.track, bfsData.track, 0),
        !.disc = or(tg.disc, bfsData.disc, 0),
        !.lengthSec = or(tg.duration, bfsData.lengthSec, 0),
        !.bitrate = or(tg.bitrate, bfsData.bitrate, 0),
        !.mbAlbumID = tg.mbAlbumId,
        !.mbArtistID = tg.mbArtistId,
        !.mbTrackID = tg.mbTrackId,
        !.rating = bfsData.rating]

\* the fields of the properties dialog that SaveTags copies over the tags
Edits == {[title |-> "T2", album |-> ""]}
ApplyEdit(td, e) == [k \in DOMAIN td |-> IF k \in DOMAIN e THEN e[k] ELSE td[k]]

\* TagSync::WriteTagsToFile: the embedded tags afterwards
WriteTagsToFile(tg, td) ==
  [tg EXCEPT !.title = td.title, !.artist = td.artist, !.album = td.album,
             !.genre = td.genre, !.comment = td.comment, !.year = td.year,
             !.track = td.track, !.disc = td.disc,
             !.mbAlbumId = td.mbAlbumID, !.mbArtistId = td.mbArtistID,
             !.mbTrackId = td.mbTrackID]

\* TagSync::WriteBfsAttributes: the native attributes afterwards
WriteBfsAttributes(td) ==
  [title |-> td.title, artist |-> td.artist, album |-> td.album,
   genre |-> td.genre, year |-> td.year, track |-> td.track,
   disc |-> td.disc, lengthSec |-> td.lengthSec, bitrate |-> td.bitrate,
   mbAlbumID |-> td.mbAlbumID, mbArtistID |-> td.mbArtistID,
   mbTrackID |-> td.mbTrackID,
   rating |-> IF td.rating = 0 THEN NoAttr ELSE Attr(td.rating)]

\* the MSG_MEDIA_ITEM_FOUND message SaveTags sends
SaveTagsUpdate(f, td) ==
  [what |-> "MSG_MEDIA_ITEM_FOUND", path |-> f, title |-> td.title,
   artist |-> td.artist, album |-> td.album, genre |-> td.genre,
   comment |-> td.comment, year |-> td.year, track |-> td.track,
   trackTotal |-> td.trackTotal, disc |-> td.disc,
   discTotal |-> td.discTotal, duration |-> td.lengthSec,
   bitrate |-> td.bitrate, mbAlbumID |-> td.mbAlbumID,
   mbArtistID |-> td.mbArtistID, mbTrackID |-> td.mbTrackID]

\* MetadataHandler::SaveTags for one file of the message
SaveTags(f, e) ==
  LET td == ApplyEdit(ReadTags(fileTags[f], ReadBfsAttributes(f)), e)
      written == WriteTagsToFile(fileTags[f], td)
      tdSaved == ReadTags(written, ReadBfsAttributes(f))
  IN /\ EnvStep
     /\ FileOnDisk(f)
     /\ fileTags' = [fileTags EXCEPT ![f] = written]
     /\ stat' = [stat EXCEPT ![f].mtime = @ + 1]
     /\ fileAttrs' = [fileAttrs EXCEPT ![f] = WriteBfsAttributes(tdSaved)]
     /\ cacheQueue' = Append(cacheQueue, SaveTagsUpdate(f, td))
     /\ UNCHANGED <<dirs, online, exists, sync, call>>

\* ------------------------------------------------- TagSync rating bytes
\* _ratingToByte: the POPM byte written for a rating
RatingToByte(rating) ==
  IF rating = 0 THEN 0
  ELSE IF rating >= 10 THEN 255
  ELSE CASE rating = 1 -> 1
         [] rating = 2 -> 64
         [] rating = 3 -> 96
         [] rating = 4 -> 128
         [] rating = 5 -> 160
         [] rating = 6 -> 196
         [] rating = 7 -> 208
         [] rating = 8 -> 224
         [] rating = 9 -> 240

\* _byteToRating: the rating read back from a POPM byte
ByteToRating(val) ==
  IF val = 0 THEN 0
  ELSE IF val < 8 THEN 1
  ELSE IF val < 64 THEN 2
  ELSE IF val < 96 THEN 3
  ELSE IF val < 128 THEN 4
  ELSE IF val < 160 THEN 5
  ELSE IF val < 196 THEN 6
  ELSE IF val < 208 THEN 7
  ELSE IF val < 224 THEN 8
  ELSE IF val < 240 THEN 9
  ELSE 10

\* ------------------------------------------ TagSync attribute keys
\* WriteBfsAttributes: the attribute each field of TagData is written to
WrittenKey ==
  [title |-> "Media:Title", artist |-> "Audio:Artist", album |-> "Audio:Album",
   genre |-> "Media:Genre", comment |-> "Media:Comment", year |-> "Media:Year",
   track |-> "Audio:Track", lengthSec |-> "Media:Length",
   bitrate |-> "Audio:Bitrate", sampleRate |-> "Audio:Rate",
   channels |-> "Audio:Channels", albumArtist |-> "Media:AlbumArtist",
   composer |-> "Media:Composer", trackTotal |-> "Media:TrackTotal",
   disc |-> "Media:Disc", discTotal |-> "Media:DiscTotal",
   mbAlbumID |-> "Media:MBAlbumID", mbArtistID |-> "Media:MBArtistID",
   mbTrackID |-> "Media:MBTrackID", acoustId |-> "Media:AAID",
   rating |-> "Media:Rating"]
\* the attributes of a file that had none, after WriteBfsAttributes: an empty
\* or zero field removes its attribute
WriteAttrKeys(td) ==
  LET set == {f \in DOMAIN WrittenKey : ~IsEmptyField(td, f)}
  IN [k \in {WrittenKey[f] : f \in set} |->
        td[CHOOSE f \in set : WrittenKey[f] = k]]

\* ReadBfsAttributes: the attributes tried, in order, for each field it fills
ReadKeys ==
  [title |-> <<"Media:Title">>, artist |-> <<"Audio:Artist">>,
   album |-> <<"Audio:Album">>, genre |-> <<"Media:Genre", "Audio:Genre">>,
   comment |-> <<"Media:Comment">>, year |-> <<"Media:Year">>,
   track |-> <<"Audio:Track">>, albumArtist |-> <<"Audio:AlbumArtist">>,
   composer |-> <<"Audio:Composer">>, rating |-> <<"Media:Rating">>,
   mbAlbumID |-> <<"Media:MBAlbumID">>, mbArtistID |-> <<"Media:MBArtistID">>,
   mbTrackID |-> <<"Media:MBTrackID">>,
   acoustId |-> <<"Media:AAID", "Media::AAID">>]
\* the TagData ReadBfsAttributes fills from the attributes of a file
ReadAttrKeys(attrs) ==
  [f \in DOMAIN DefaultTagData |->
     IF f \notin DOMAIN ReadKeys THEN DefaultTagData[f]
     ELSE LET there == {i \in 1..Len(ReadKeys[f]) : ReadKeys[f][i] \in DOMAIN attrs}
          IN IF there = {} THEN DefaultTagData[f]
             ELSE LET v == attrs[ReadKeys[f][CHOOSE i \in there :
                                               \A j \in there : i <= j]]
                  IN IF f = "rating" THEN ReadBfsRating(Attr(v)) ELSE v]

\* ------------------------------------------- TagSync number pairs
\* a string is the sequence of its characters
DigitValue(c) == (CHOOSE k \in 1..10 : DigitChars[k] = c) - 1
IsDigit(c) == \E k \in 1..10 : DigitChars[k] = c
\* std::to_string of an unsigned number
RECURSIVE StdToString(_)
StdToString(n) ==
  IF n < 10 THEN <<DigitChars[n + 1]>>
  ELSE Append(StdToString(n \div 10), DigitChars[(n % 10) + 1])

\* strtol(cs, &end, 10) on a string without sign or blanks: the value of
\* the leading digits
RECURSIVE StrToL(_, _)
StrToL(cs, acc) ==
  IF cs = <<>> \/ ~IsDigit(Head(cs)) THEN acc
  ELSE StrToL(Tail(cs), acc * 10 + DigitValue(Head(cs)))
\* _toUInt
ToUInt(cs) ==
  IF cs = <<>> THEN 0
  ELSE LET v == StrToL(cs, 0) IN IF v > 0 THEN v ELSE 0

\* strchr(cs, '/'): the position of the first slash, 0 when there is none
FirstSlash(cs) ==
  IF \E k \in 1..Len(cs) : cs[k] = "/"
  THEN CHOOSE k \in 1..Len(cs) : cs[k] = "/" /\ \A j \in 1..(k - 1) : cs[j] # "/"
  ELSE 0
\* _parsePair: <<first, second>>
ParsePair(cs) ==
  LET slash == FirstSlash(cs)
  IN IF slash = 0 THEN <<ToUInt(cs), 0>>
     ELSE <<ToUInt(SubSeq(cs, 1, slash - 1)),
            ToUInt(SubSeq(cs, slash + 1, Len(cs)))>>

\* (mutant) the slash is written also when there is no total
PairStr_TrailingSlash(n, tot) ==
  IF n = 0 /\ tot = 0 THEN <<>>
  ELSE IF tot = 0 THEN StdToString(n) \o <<"/">>
  ELSE StdToString(n) \o <<"/">> \o StdToString(tot)

\* _pairStr
PairStr(n, tot) ==
  IF n = 0 /\ tot = 0 THEN <<>>
  ELSE IF tot = 0 THEN StdToString(n)
  ELSE StdToString(n) \o <<"/">> \o StdToString(tot)

\* a TRCK / TPOS frame is absent or holds a text
NoFrame == [present |-> FALSE, text |-> <<>>]
\* WriteTagsToFile: the frame is removed when _pairStr is empty, else set
WritePairFrame(n, tot) ==
  LET v == PairStr(n, tot)
  IN IF v = <<>> THEN NoFrame ELSE [present |-> TRUE, text |-> v]
\* ReadTags: a frame that is there is parsed into n and tot, which start at 0
ReadPairFrame(fr) ==
  IF ~fr.present \/ fr.text = <<>> THEN <<0, 0>> ELSE ParsePair(fr.text)

\* ----------------------------------------------------- TagSync merging
\* the fields SmartMerge passes to mergeField / mergeUint
MergedFields == StringFields \cup
                {"year", "track", "trackTotal", "disc", "discTotal", "rating"}

\* (mutant) mergeUint without its conflict branch
SmartMerge_NoUintConflict(primary, secondary) ==
  LET differ == {f \in MergedFields : primary[f] # secondary[f]}
      filled == {f \in differ : IsEmptyField(primary, f)
                                  /\ ~IsEmptyField(secondary, f)}
      conflicts == {f \in differ \cap StringFields :
                      ~IsEmptyField(primary, f) /\ ~IsEmptyField(secondary, f)}
  IN [out |-> [f \in DOMAIN primary |->
                 IF f \in filled THEN secondary[f] ELSE primary[f]],
      hasConflict |-> conflicts # {},
      changed |-> filled # {},
      result |-> (filled # {}) \/ (conflicts # {})]

\* (mutant) the value returned is the local changed flag alone
SmartMerge_ReturnChanged(primary, secondary) ==
  LET differ == {f \in MergedFields : primary[f] # secondary[f]}
      filled == {f \in differ : IsEmptyField(primary, f)
                                  /\ ~IsEmptyField(secondary, f)}
      conflicts == {f \in differ : ~IsEmptyField(primary, f)
                                     /\ ~IsEmptyField(secondary, f)}
  IN [out |-> [f \in DOMAIN primary |->
                 IF f \in filled THEN secondary[f] ELSE primary[f]],
      hasConflict |-> conflicts # {},
      changed |-> filled # {},
      result |-> filled # {}]

\* (mutant) two non-empty values conflict even when they are equal
SmartMerge_ConflictWhenBothSet(primary, secondary) ==
  LET differ == {f \in MergedFields : primary[f] # secondary[f]}
      filled == {f \in differ : IsEmptyField(primary, f)
                                  /\ ~IsEmptyField(secondary, f)}
      conflicts == {f \in MergedFields : ~IsEmptyField(primary, f)
                                           /\ ~IsEmptyField(secondary, f)}
  IN [out |-> [f \in DOMAIN primary |->
                 IF f \in filled THEN secondary[f] ELSE primary[f]],
      hasConflict |-> conflicts # {},
      changed |-> filled # {},
      result |-> (filled # {}) \/ (conflicts # {})]

\* (mutant) on a conflict the secondary value is taken
SmartMerge_ConflictTakesSecondary(primary, secondary) ==
  LET differ == {f \in MergedFields : primary[f] # secondary[f]}
      filled == {f \in differ : IsEmptyField(primary, f)
                                  /\ ~IsEmptyField(secondary, f)}
      conflicts == {f \in differ : ~IsEmptyField(primary, f)
                                     /\ ~IsEmptyField(secondary, f)}
  IN [out |-> [f \in DOMAIN primary |->
                 IF f \in filled \cup conflicts THEN secondary[f]
                 ELSE primary[f]],
      hasConflict |-> conflicts # {},
      changed |-> filled # {},
      result |-> (filled # {}) \/ (conflicts # {})]

\* TagSync::SmartMerge: out, the hasConflict flag, the local changed flag and
\* the value returned
SmartMerge(primary, secondary) ==
  LET differ == {f \in MergedFields : primary[f] # secondary[f]}
      filled == {f \in differ : IsEmptyField(primary, f)
                                  /\ ~IsEmptyField(secondary, f)}
      conflicts == {f \in differ : ~IsEmptyField(primary, f)
                                     /\ ~IsEmptyField(secondary, f)}
  IN [out |-> [f \in DOMAIN primary |->
                 IF f \in filled THEN secondary[f] ELSE primary[f]],
      hasConflict |-> conflicts # {},
      changed |-> filled # {},
      result |-> (filled # {}) \/ (conflicts # {})]

\* the modes of MergeMetadata
ConflictModes == {"CONFLICT_OVERWRITE", "CONFLICT_FILL_EMPTY", "CONFLICT_ASK"}

\* (mutant) the overwrite mode fills empty fields too
MergeMetadata_OverwriteFills(primary, secondary, mode) ==
  [f \in DOMAIN primary |->
     IF /\ mode \in {"CONFLICT_OVERWRITE", "CONFLICT_FILL_EMPTY"}
        /\ f \in MergedFields
        /\ IsEmptyField(primary, f)
     THEN secondary[f] ELSE primary[f]]

\* TagSync::MergeMetadata: result = primary, and in mode fill-empty the
\* fields passed to mergeField / mergeUint take secondary's value when empty
MergeMetadata(primary, secondary, mode) ==
  [f \in DOMAIN primary |->
     IF /\ mode = "CONFLICT_FILL_EMPTY"
        /\ f \in MergedFields
        /\ IsEmptyField(primary, f)
     THEN secondary[f] ELSE primary[f]]

\* TagData::HasDifferences
HasDifferences(a, b) ==
  \E f \in {"title", "artist", "album", "genre", "year", "track",
             "albumArtist", "composer", "mbTrackID", "mbAlbumID",
             "mbArtistID", "acoustId"} : a[f] # b[f]

\* ---------------------------------------- MetadataHandler::SyncMetadata
\* the TagData ReadBfsAttributes fills for a file
BfsData(f) ==
  LET b == ReadBfsAttributes(f)
  IN [k \in DOMAIN DefaultTagData |->
        IF k \in DOMAIN b THEN b[k] ELSE DefaultTagData[k]]
\* the TagData ReadTags fills for a file
TagsData(f) == ReadTags(fileTags[f], ReadBfsAttributes(f))

\* MusicSource::GetSourceForPath: the settings of the file's directory
SyncSources ==
  {[primary |-> pr, secondary |-> IF pr = "SOURCE_TAGS" THEN "SOURCE_BFS"
                                  ELSE "SOURCE_TAGS", conflictMode |-> m] :
     pr \in {"SOURCE_TAGS", "SOURCE_BFS"},
     m \in {"CONFLICT_OVERWRITE", "CONFLICT_FILL_EMPTY", "CONFLICT_ASK"}}
\* the file lists SyncMetadata is called with
SyncLists == {<<FileC, FileB>>, <<FileB, FileC>>, <<FileC, FileB, FileC>>}

\* SyncMetadata is called
SyncStart(files, src) ==
  /\ sync.pc = "idle"
  /\ sync' = [NoSync EXCEPT !.pc = "running", !.files = files, !.src = src]
  /\ UNCHANGED <<dirs, online, exists, stat, fileTags, fileAttrs, cacheVars,
                 cacheQueue, scanners, ui, hist, call>>

\* one iteration of the loop over files
SyncFile ==
  LET f == sync.files[sync.i + 1]
      tags == TagsData(f)
      bfs == BfsData(f)
      primIsBfs == sync.src.primary = "SOURCE_BFS"
      primaryData == IF primIsBfs THEN bfs ELSE tags
      secondaryData == IF primIsBfs THEN tags ELSE bfs
      m == SmartMerge(primaryData, secondaryData)
      merged == m.out
      changed == m.result
      conflict == m.hasConflict
      ask == conflict /\ sync.src.conflictMode = "CONFLICT_ASK"
      canWriteTags == "SOURCE_TAGS" \in {sync.src.primary, sync.src.secondary}
      canWriteBfs == "SOURCE_BFS" \in {sync.src.primary, sync.src.secondary}
      writeTags == ~ask /\ canWriteTags /\ HasDifferences(merged, tags)
      writeBfs == ~ask /\ canWriteBfs /\ HasDifferences(merged, bfs)
      notify == ~ask /\ (changed \/ conflict)
      askMsg == [what |-> "MSG_SYNC_CONFLICT", path |-> f, index |-> sync.i,
                 total |-> Len(sync.files), towardsBfs |-> TRUE]
      update == [what |-> "MSG_MEDIA_ITEM_FOUND", path |-> f,
                 title |-> merged.title, artist |-> merged.artist,
                 album |-> merged.album, genre |-> merged.genre,
                 year |-> merged.year, track |-> merged.track]
      progress == [what |-> "MSG_SYNC_PROGRESS", current |-> sync.i + 1,
                   total |-> Len(sync.files)]
  IN /\ sync.pc = "running"
     /\ sync.i < Len(sync.files)
     /\ fileTags' = IF writeTags
                    THEN [fileTags EXCEPT ![f] = WriteTagsToFile(@, merged)]
                    ELSE fileTags
     /\ stat' = IF writeTags THEN [stat EXCEPT ![f].mtime = @ + 1] ELSE stat
     /\ fileAttrs' = IF writeBfs
                     THEN [fileAttrs EXCEPT ![f] = WriteBfsAttributes(merged)]
                     ELSE fileAttrs
     /\ sync' = [sync EXCEPT
                   !.i = @ + 1,
                   !.out = @ \o (IF ask THEN <<askMsg>>
                                 ELSE (IF notify THEN <<update>> ELSE <<>>)
                                      \o <<progress>>)]
     /\ cacheQueue' = IF notify THEN Append(cacheQueue, update) ELSE cacheQueue
     /\ UNCHANGED <<dirs, online, exists, cacheVars, scanners, ui, hist, call>>

\* the loop is over: MSG_SYNC_DONE
SyncFinish ==
  /\ sync.pc = "running"
  /\ sync.i = Len(sync.files)
  /\ sync' = [sync EXCEPT !.pc = "done",
                          !.out = Append(@, [what |-> "MSG_SYNC_DONE"])]
  /\ UNCHANGED <<dirs, online, exists, stat, fileTags, fileAttrs, cacheVars,
                 cacheQueue, scanners, ui, hist, call>>

\* the conflicts asked about and not yet decided
PendingConflicts ==
  {sync.out[j].index : j \in {k \in 1..Len(sync.out) :
                                sync.out[k].what = "MSG_SYNC_CONFLICT"}}
    \ sync.decided

\* SyncConflictDialog::SendChoice: the decision on one conflict is sent
SendChoice(k) ==
  /\ k \in PendingConflicts
  /\ sync' = [sync EXCEPT !.decided = @ \cup {k}]
  /\ UNCHANGED <<dirs, online, exists, stat, fileTags, fileAttrs, cacheVars,
                 cacheQueue, scanners, ui, hist, call>>

\* the files SyncMetadata is run on: tags and attributes that agree, fill
\* each other or disagree
SyncTags(f) ==
  IF f = FileB THEN {InitTags(f), [InitTags(f) EXCEPT !.artist = "ArtT"]}
  ELSE {InitTags(f)}
SyncAttrs(f) ==
  IF f = FileC THEN {InitAttrs(f), [InitAttrs(f) EXCEPT !.title = "X"]}
  ELSE {InitAttrs(f)}

InitSync ==
  /\ dirs = <<RootM, RootM2>>
  /\ online = Dirs
  /\ exists = [f \in Files \cup Links |-> f \in Files]
  /\ stat = [f \in Files |-> InitStat]
  /\ fileTags \in {t \in [Files -> UNION {SyncTags(f) : f \in Files}] :
                      \A f \in Files : t[f] \in SyncTags(f)}
  /\ fileAttrs \in {a \in [Files -> UNION {SyncAttrs(f) : f \in Files}] :
                       \A f \in Files : a[f] \in SyncAttrs(f)}
  /\ fEntries = EmptyMap
  /\ fActiveScanners = 0
  /\ cacheQueue = <<>>
  /\ cacheFile = {}
  /\ scanners = <<>>
  /\ ui = ZeroUi
  /\ hist = InitHist
  /\ sync = NoSync
  /\ call = NoCall

NextSync ==
  \/ \E files \in SyncLists, src \in SyncSources : SyncStart(files, src)
  \/ SyncFile
  \/ SyncFinish
  \/ \E k \in 0..2 : SendChoice(k)
  \/ CacheReceive

SpecSync == InitSync /\ [][NextSync]_vars

\* ------------------------------------------------ calls of TagSync
\* a rating is written to a tag and read back
RatingCalls ==
  {[op |-> "rating", pc |-> "ready", rating |-> r, byte |-> 0, back |-> 0] :
     r \in 0..MaxRatingIn}

\* a track or disc number and its total are written to a tag and read back
MaxPair == 12
PairCalls ==
  {[op |-> "pair", pc |-> "ready", n |-> n, tot |-> t, frame |-> NoFrame,
    back |-> <<0, 0>>] : n \in 0..MaxPair, t \in 0..MaxPair}

\* the fields of TagData, and the values a field takes in the calls
FieldSeq ==
  <<"title", "artist", "album", "genre", "comment", "albumArtist", "composer",
    "mbAlbumID", "mbArtistID", "mbTrackID", "acoustId", "acoustIdFp",
    "year", "track", "trackTotal", "disc", "discTotal", "rating",
    "lengthSec", "bitrate", "sampleRate", "channels">>
FieldValues(f) == IF f \in StringFields THEN {"", "A", "B"} ELSE {0, 1, 2}
\* a TagData whose fields f and g hold v and w, the others being empty
TagDataWith(f, v, g, w) ==
  [k \in DOMAIN DefaultTagData |->
     IF k = f THEN v ELSE IF k = g THEN w ELSE DefaultTagData[k]]

\* a TagData is written to the attributes of a file and read back
BfsCall(f, v, g, w) ==
  [op |-> "bfs", pc |-> "ready", td |-> TagDataWith(f, v, g, w),
   attrs |-> <<>>, back |-> DefaultTagData]

\* SmartMerge is about to be called on two TagData that differ in at most
\* the fields f and g
MergeCall(f, v1, v2, g, w1, w2) ==
  [op |-> "merge", pc |-> "ready",
   primary |-> TagDataWith(f, v1, g, w1),
   secondary |-> TagDataWith(f, v2, g, w2),
   out |-> DefaultTagData, changed |-> FALSE, hasConflict |-> FALSE]

\* MergeMetadata is about to be called on the same kind of pair
MergeMetadataCall(f, v1, v2, g, w1, w2, mode) ==
  [op |-> "mergeMetadata", pc |-> "ready", mode |-> mode,
   primary |-> TagDataWith(f, v1, g, w1),
   secondary |-> TagDataWith(f, v2, g, w2),
   out |-> DefaultTagData]

\* TagSync::MergeMetadata(primary, secondary, mode) is called
CallMergeMetadata ==
  /\ call.op = "mergeMetadata"
  /\ call.pc = "ready"
  /\ call' = [call EXCEPT !.pc = "done",
                          !.out = MergeMetadata(call.primary, call.secondary,
                                                call.mode)]
  /\ UNCHANGED <<dirs, online, exists, stat, fileTags, fileAttrs, cacheVars,
                 cacheQueue, scanners, ui, hist, sync>>

\* TagSync::SmartMerge(primary, secondary, out, hasConflict) is called
CallSmartMerge ==
  LET m == SmartMerge(call.primary, call.secondary)
  IN /\ call.op = "merge"
     /\ call.pc = "ready"
     /\ call' = [call EXCEPT !.pc = "done", !.out = m.out,
                             !.changed = m.result,
                             !.hasConflict = m.hasConflict]
     /\ UNCHANGED <<dirs, online, exists, stat, fileTags, fileAttrs, cacheVars,
                    cacheQueue, scanners, ui, hist, sync>>

\* WriteBfsAttributes(path, td) on a file without attributes, then
\* ReadBfsAttributes(path)
WriteReadBfs ==
  /\ call.op = "bfs"
  /\ call.pc = "ready"
  /\ call' = [call EXCEPT !.pc = "done",
                          !.attrs = WriteAttrKeys(call.td),
                          !.back = ReadAttrKeys(WriteAttrKeys(call.td))]
  /\ UNCHANGED <<dirs, online, exists, stat, fileTags, fileAttrs, cacheVars,
                 cacheQueue, scanners, ui, hist, sync>>

\* WriteTagsToFile stores _pairStr(n, tot) in the frame, ReadTags runs
\* _parsePair on the frame's text
WriteReadPair ==
  /\ call.op = "pair"
  /\ call.pc = "ready"
  /\ call' = [call EXCEPT !.pc = "done",
                          !.frame = WritePairFrame(call.n, call.tot),
                          !.back = ReadPairFrame(WritePairFrame(call.n, call.tot))]
  /\ UNCHANGED <<dirs, online, exists, stat, fileTags, fileAttrs, cacheVars,
                 cacheQueue, scanners, ui, hist, sync>>

\* WriteTagsToFile stores _ratingToByte(td.rating), ReadTags returns
\* _byteToRating of the stored byte
WriteReadRating ==
  /\ call.op = "rating"
  /\ call.pc = "ready"
  /\ call' = [call EXCEPT !.pc = "done",
                          !.byte = RatingToByte(call.rating),
                          !.back = ByteToRating(RatingToByte(call.rating))]
  /\ UNCHANGED <<dirs, online, exists, stat, fileTags, fileAttrs, cacheVars,
                 cacheQueue, scanners, ui, hist, sync>>

InitTagSync ==
  /\ dirs = <<>>
  /\ online = Dirs
  /\ exists = [f \in Files \cup Links |-> f \in Files]
  /\ stat = [f \in Files |-> InitStat]
  /\ fileTags = [f \in Files |-> InitTags(f)]
  /\ fileAttrs = [f \in Files |-> InitAttrs(f)]
  /\ fEntries = EmptyMap
  /\ fActiveScanners = 0
  /\ cacheQueue = <<>>
  /\ cacheFile = {}
  /\ scanners = <<>>
  /\ ui = ZeroUi
  /\ hist = InitHist
  /\ sync = NoSync
  /\ \/ call \in RatingCalls
     \/ call \in PairCalls
     \/ \E i \in 1..Len(FieldSeq), j \in 1..Len(FieldSeq) :
          /\ i < j
          /\ \E v1 \in FieldValues(FieldSeq[i]), v2 \in FieldValues(FieldSeq[i]),
                w1 \in FieldValues(FieldSeq[j]), w2 \in FieldValues(FieldSeq[j]) :
               \/ call = MergeCall(FieldSeq[i], v1, v2, FieldSeq[j], w1, w2)
               \/ (v1 = v2 /\ w1 = w2 /\
                   call = BfsCall(FieldSeq[i], v1, FieldSeq[j], w1))
               \/ \E mode \in ConflictModes :
                    call = MergeMetadataCall(FieldSeq[i], v1, v2,
                                             FieldSeq[j], w1, w2, mode)

NextTagSync ==
  \/ WriteReadRating
  \/ CallSmartMerge
  \/ CallMergeMetadata
  \/ WriteReadPair
  \/ WriteReadBfs

SpecTagSync == InitTagSync /\ [][NextTagSync]_vars

\* ------------------------------------------------------- MusicSource
\* MusicSource::MusicSource(): the default settings
DefaultSource ==
  [path |-> <<>>, primary |-> "SOURCE_TAGS", secondary |-> "SOURCE_BFS",
   conflictMode |-> "CONFLICT_ASK"]
\* the "source" messages a directories.settings file holds
MaxSources == 2
SourceChoices ==
  {[path |-> d, primary |-> "SOURCE_BFS", secondary |-> "SOURCE_TAGS",
    conflictMode |-> m] :
     d \in Dirs, m \in {"CONFLICT_OVERWRITE", "CONFLICT_FILL_EMPTY"}}
SourceLists ==
  UNION {[1..n -> SourceChoices] : n \in 0..MaxSources}

\* the while loop of GetSourceForPath from message idx on
RECURSIVE BestMatch(_, _, _, _, _)
BestMatch(filePath, sources, idx, bestMatch, bestLen) ==
  IF idx > Len(sources) THEN bestMatch
  ELSE LET src == sources[idx]
       IN IF StartsWith(filePath, src.path) /\ Len(src.path) > bestLen
          THEN BestMatch(filePath, sources, idx + 1, src, Len(src.path))
          ELSE BestMatch(filePath, sources, idx + 1, bestMatch, bestLen)

\* MusicSource::GetSourceForPath; settings.present: directories.settings
\* can be opened and unflattened
GetSourceForPath(filePath, settings) ==
  IF ~settings.present THEN DefaultSource
  ELSE BestMatch(filePath, settings.sources, 1, DefaultSource, 0)

\* GetSourceForPath is about to be called
SourceCalls ==
  {[op |-> "getSource", pc |-> "ready", filePath |-> f,
    settings |-> [present |-> pr, sources |-> l], result |-> DefaultSource] :
     f \in Files, pr \in BOOLEAN, l \in SourceLists}

\* MusicSource::GetSourceForPath(filePath) is called
CallGetSourceForPath ==
  /\ call.op = "getSource"
  /\ call.pc = "ready"
  /\ call' = [call EXCEPT !.pc = "done",
                          !.result = GetSourceForPath(call.filePath,
                                                      call.settings)]
  /\ UNCHANGED <<dirs, online, exists, stat, fileTags, fileAttrs, cacheVars,
                 cacheQueue, scanners, ui, hist, sync>>

\* ------------------------------------------- calls of CacheManager
\* the entries AddOrUpdateEntry is called with, and the maps it finds
EntryChoices ==
  {[DefaultItem EXCEPT !.path = f, !.base = ParentOf(f), !.title = t,
                       !.mbTrackId = id] :
     f \in Files, t \in {"X", "Y"}, id \in {"", "T"}}
EntryMaps ==
  UNION {{m \in [fs -> EntryChoices] : \A f \in fs : m[f].path = f} :
           fs \in SUBSET Files}
UpsertCalls ==
  {[op |-> "upsert", pc |-> "ready", entries |-> m, entry |-> e,
    out |-> EmptyMap, again |-> EmptyMap] : m \in EntryMaps, e \in EntryChoices}

\* CacheManager::AddOrUpdateEntry(entry) is called, and once more with the
\* same entry
CallAddOrUpdateEntry ==
  LET once == AddOrUpdateEntry(call.entries, call.entry)
  IN /\ call.op = "upsert"
     /\ call.pc = "ready"
     /\ call' = [call EXCEPT !.pc = "done", !.out = once,
                             !.again = AddOrUpdateEntry(once, call.entry)]
     /\ UNCHANGED <<dirs, online, exists, stat, fileTags, fileAttrs, cacheVars,
                    cacheQueue, scanners, ui, hist, sync>>

\* MSG_LOAD_CACHE is handled with media.cache missing, garbled or holding
\* an archive, whatever the map held before
LoadCacheCalls ==
  {[op |-> "loadCache", pc |-> "ready", file |-> fl, entries |-> b,
    loaded |-> 0] :
     fl \in {MissingFile, GarbledFile}
              \cup {ArchiveFile(SaveCache(m)) : m \in EntryMaps},
     b \in EntryMaps}
CallLoadCache ==
  /\ call.op = "loadCache"
  /\ call.pc = "ready"
  /\ call' = [call EXCEPT !.pc = "done",
                          !.entries = OnLoadCache(call.file).entries,
                          !.loaded = OnLoadCache(call.file).loaded]
  /\ UNCHANGED <<dirs, online, exists, stat, fileTags, fileAttrs, cacheVars,
                 cacheQueue, scanners, ui, hist, sync>>

\* --------------------------------------- the lists of directories
\* CacheManager::LoadDirectories: the paths of the sources of
\* directories.settings; no other file is opened
LoadDirectories(settings) ==
  IF ~settings.present THEN <<>>
  ELSE LET paths == [i \in 1..Len(settings.sources) |-> settings.sources[i].path]
       IN SelectSeq(paths, LAMBDA q : q # <<>>)

\* DirectoryManagerWindow::MigrateFromOldFormat: the loop over the characters
\* of directories.txt; a line is taken when its newline is read
RECURSIVE MigrateLoop(_, _, _)
MigrateLoop(text, line, sources) ==
  IF text = <<>> THEN sources
  ELSE IF Head(text) = "\n"
  THEN IF line # <<>>
       THEN MigrateLoop(Tail(text), <<>>,
                        Append(sources,
                               [path |-> line, primary |-> "SOURCE_TAGS",
                                secondary |-> "SOURCE_NONE",
                                conflictMode |-> "CONFLICT_OVERWRITE"]))
       ELSE MigrateLoop(Tail(text), line, sources)
  ELSE MigrateLoop(Tail(text), Append(line, Head(text)), sources)
\* directories.settings after DirectoryManagerWindow::LoadSettings: a file
\* that loads is left alone, else the legacy file is migrated and the
\* sources found, if any, are saved
LoadSettings(settings, legacy) ==
  IF settings.present THEN settings
  ELSE LET fSources == IF legacy.present
                       THEN MigrateLoop(legacy.text, <<>>, <<>>) ELSE <<>>
       IN IF fSources # <<>> THEN [present |-> TRUE, sources |-> fSources]
          ELSE settings

\* directories.txt: one path per line, the last line with or without its
\* newline, possibly an empty line first
RECURSIVE JoinLines(_)
JoinLines(ds) ==
  IF ds = <<>> THEN <<>> ELSE Head(ds) \o <<"\n">> \o JoinLines(Tail(ds))
MaxLines == 2
DirLists == UNION {[1..n -> Dirs] : n \in 0..MaxLines}
LegacyTexts ==
  {JoinLines(ds) : ds \in DirLists}
    \cup {SubSeq(JoinLines(ds), 1, Len(JoinLines(ds)) - 1) : ds \in DirLists \ {<<>>}}
    \cup {<<"\n">> \o JoinLines(ds) : ds \in DirLists}
NoSettings == [present |-> FALSE, sources |-> <<>>]
LoadDirectoriesCalls ==
  {[op |-> "loadDirectories", pc |-> "ready", settings |-> st,
    legacy |-> lg, migrated |-> FALSE, outDirs |-> <<>>] :
     st \in {NoSettings} \cup {[present |-> TRUE, sources |-> l] : l \in SourceLists},
     lg \in {[present |-> FALSE, text |-> <<>>]}
              \cup {[present |-> TRUE, text |-> t] : t \in LegacyTexts}}

\* the directory manager window is opened: LoadSettings
CallLoadSettings ==
  /\ call.op = "loadDirectories"
  /\ call.pc = "ready"
  /\ call' = [call EXCEPT !.pc = "window",
                          !.migrated = ~call.settings.present,
                          !.settings = LoadSettings(call.settings, call.legacy)]
  /\ UNCHANGED <<dirs, online, exists, stat, fileTags, fileAttrs, cacheVars,
                 cacheQueue, scanners, ui, hist, sync>>

\* StartScan calls LoadDirectories, before or after the window was opened
CallLoadDirectories ==
  /\ call.op = "loadDirectories"
  /\ call.pc \in {"ready", "window"}
  /\ call' = [call EXCEPT !.pc = IF call.pc = "ready" THEN "done"
                                 ELSE "doneAfterWindow",
                          !.outDirs = LoadDirectories(call.settings)]
  /\ UNCHANGED <<dirs, online, exists, stat, fileTags, fileAttrs, cacheVars,
                 cacheQueue, scanners, ui, hist, sync>>

\* ------------------------------------------- the full read of one file
\* the fields ProcessFile fills from the tags, with the native attribute it
\* falls back to
FallbackFields == {"title", "artist", "album", "genre", "year", "track", "disc",
                   "duration", "bitrate"}
FallbackStrings == {"title", "artist", "album", "genre"}
AttrOf(field) == IF field = "duration" THEN "lengthSec" ELSE field
\* tags in which the fields of the set empty are empty or zero
TagsWithout(empty) ==
  [title |-> IF "title" \in empty THEN "" ELSE "TT",
   artist |-> IF "artist" \in empty THEN "" ELSE "TA",
   album |-> IF "album" \in empty THEN "" ELSE "TL",
   genre |-> IF "genre" \in empty THEN "" ELSE "TG",
   comment |-> "",
   year |-> IF "year" \in empty THEN 0 ELSE 1999,
   track |-> IF "track" \in empty THEN 0 ELSE 3,
   disc |-> IF "disc" \in empty THEN 0 ELSE 1,
   duration |-> IF "duration" \in empty THEN 0 ELSE 200,
   bitrate |-> IF "bitrate" \in empty THEN 0 ELSE 320,
   mbTrackId |-> "", mbAlbumId |-> "", mbArtistId |-> ""]
\* native attributes that hold a value for every field, or for none
FullAttrs ==
  [title |-> "BT", artist |-> "BA", album |-> "BL", genre |-> "BG",
   year |-> 2001, track |-> 5, disc |-> 2, lengthSec |-> 100,
   bitrate |-> 128, mbAlbumID |-> "", mbArtistID |-> "", mbTrackID |-> "",
   rating |-> Attr(3)]
NoAttrs ==
  [title |-> "", artist |-> "", album |-> "", genre |-> "",
   year |-> 0, track |-> 0, disc |-> 0, lengthSec |-> 0,
   bitrate |-> 0, mbAlbumID |-> "", mbArtistID |-> "", mbTrackID |-> "",
   rating |-> NoAttr]
FullReadCalls ==
  {[op |-> "fullRead", pc |-> "ready", file |-> FileB, tags |-> TagsWithout(e),
    attrs |-> a, out |-> DefaultItem] :
     e \in SUBSET FallbackFields, a \in {FullAttrs, NoAttrs}}

\* the file is written with these tags and attributes
PrepareFile ==
  /\ call.op = "fullRead"
  /\ call.pc = "ready"
  /\ fileTags' = [fileTags EXCEPT ![call.file] = call.tags]
  /\ fileAttrs' = [fileAttrs EXCEPT ![call.file] = call.attrs]
  /\ call' = [call EXCEPT !.pc = "onDisk"]
  /\ UNCHANGED <<dirs, online, exists, stat, cacheVars, cacheQueue, scanners,
                 ui, hist, sync>>

\* MediaScanner::ProcessFile reads the file in full
CallFullRead ==
  /\ call.op = "fullRead"
  /\ call.pc = "onDisk"
  /\ call' = [call EXCEPT
        !.pc = "done",
        !.out = FullReadItem(call.file, stat[call.file], fileTags[call.file],
                             ReadBfsAttributes(call.file), TRUE)]
  /\ UNCHANGED <<dirs, online, exists, stat, fileTags, fileAttrs, cacheVars,
                 cacheQueue, scanners, ui, hist, sync>>

\* calls of functions that read or write the settings files and the cache
InitCalls ==
  /\ dirs = <<>>
  /\ online = Dirs
  /\ exists = [f \in Files \cup Links |-> f \in Files]
  /\ stat = [f \in Files |-> InitStat]
  /\ fileTags = [f \in Files |-> InitTags(f)]
  /\ fileAttrs = [f \in Files |-> InitAttrs(f)]
  /\ fEntries = EmptyMap
  /\ fActiveScanners = 0
  /\ cacheQueue = <<>>
  /\ cacheFile = {}
  /\ scanners = <<>>
  /\ ui = ZeroUi
  /\ hist = InitHist
  /\ sync = NoSync
  /\ \/ call \in SourceCalls
     \/ call \in UpsertCalls
     \/ call \in LoadDirectoriesCalls
     \/ call \in FullReadCalls
     \/ call \in LoadCacheCalls

NextCalls ==
  \/ CallLoadCache
  \/ PrepareFile
  \/ CallFullRead
  \/ CallGetSourceForPath
  \/ CallAddOrUpdateEntry
  \/ CallLoadSettings
  \/ CallLoadDirectories

SpecCalls == InitCalls /\ [][NextCalls]_vars

\* the engine: the cache looper, the scanner workers, rescan requests
Engine ==
  \/ CacheReceive
  \/ \E i \in 1..Len(scanners) : WorkerBegin(i)
  \/ \E i \in 1..Len(scanners) : OpenDir(i)
  \/ \E i \in 1..Len(scanners) : NextEntry(i)
  \/ \E i \in 1..Len(scanners) : Finish(i)
  \/ PostRescan

Next ==
  \/ Engine
  \/ \E f \in Files : ToggleFile(f)
  \/ \E f \in Files : ModifyFile(f)
  \/ \E f \in Files, r \in RatingAttrValues : SetRatingAttr(f, r)
  \/ \E d \in OfflineDirs : ToggleOnline(d)
  \/ \E c \in Configs : Configure(c)
  \/ \E f \in Files, e \in Edits : SaveTags(f, e)

Spec == Init /\ [][Next]_vars

\* the application quits while scanners run: their destructors raise the
\* stop signal
NextStop ==
  \/ Engine
  \/ \E i \in 1..Len(scanners) : StopScanner(i)

SpecStop == Init /\ [][NextStop]_vars

\* ------------------------------------------- failures while a scan runs
\* something fails on the disk while a worker is traversing
FailStep ==
  /\ hist.envOps < MaxEnvOps
  /\ \E i \in 1..Len(scanners) : Running(scanners[i])
  /\ hist' = [hist EXCEPT !.envOps = @ + 1, !.dirty = TRUE]
  /\ UNCHANGED <<dirs, cacheVars, cacheQueue, scanners, ui, sync, call>>
\* a file is deleted: stat() fails from now on
VanishFile(f) ==
  /\ FailStep
  /\ exists[f]
  /\ exists' = [exists EXCEPT ![f] = FALSE]
  /\ UNCHANGED <<online, stat, fileTags, fileAttrs>>
\* a directory is removed or unmounted: BDirectory::InitCheck fails
VanishDir(d) ==
  /\ FailStep
  /\ d \in online
  /\ online' = online \ {d}
  /\ UNCHANGED <<exists, stat, fileTags, fileAttrs>>
\* a file is damaged: TagLib throws when it is opened
CorruptFile(f) ==
  /\ FailStep
  /\ ~Throws(fileTags[f])
  /\ fileTags' = [fileTags EXCEPT ![f] = Unreadable]
  /\ UNCHANGED <<online, exists, stat, fileAttrs>>

\* the first scan of the configured directories has been requested
InitFail ==
  /\ dirs \in Configs
  /\ online = Dirs
  /\ exists = [f \in Files \cup Links |-> f \in Files]
  /\ stat = [f \in Files |-> InitStat]
  /\ fileTags = [f \in Files |-> InitTags(f)]
  /\ fileAttrs = [f \in Files |-> InitAttrs(f)]
  /\ fEntries = EmptyMap
  /\ fActiveScanners = 0
  /\ cacheQueue = << [what |-> "MSG_RESCAN"] >>
  /\ cacheFile = {}
  /\ scanners = <<>>
  /\ ui = ZeroUi
  /\ hist = InitHist
  /\ sync = NoSync
  /\ call = NoCall

NextFail ==
  \/ CacheReceive
  \/ \E i \in 1..Len(scanners) : WorkerBegin(i)
  \/ \E i \in 1..Len(scanners) : OpenDir(i)
  \/ \E i \in 1..Len(scanners) : NextEntry(i)
  \/ \E i \in 1..Len(scanners) : Finish(i)
  \/ \E f \in Files : VanishFile(f)
  \/ \E d \in OfflineDirs : VanishDir(d)
  \/ \E f \in Files : CorruptFile(f)

SpecFail == InitFail /\ [][NextFail]_vars

\* ------------------------------------------- rescans while a scan runs
\* DirectoryManagerWindow MSG_DIR_OK at any time: MSG_RESCAN is sent whether
\* or not the scanners of the scan before have reported
RescanAnyTime ==
  /\ hist.envOps < MaxRescans
  /\ cacheQueue' = Append(cacheQueue, [what |-> "MSG_RESCAN"])
  /\ hist' = [hist EXCEPT !.envOps = @ + 1]
  /\ UNCHANGED <<envVars, cacheVars, scanners, ui>>

NextOverlap ==
  \/ CacheReceive
  \/ \E i \in 1..Len(scanners) : WorkerBegin(i)
  \/ \E i \in 1..Len(scanners) : OpenDir(i)
  \/ \E i \in 1..Len(scanners) : NextEntry(i)
  \/ \E i \in 1..Len(scanners) : Finish(i)
  \/ RescanAnyTime

SpecOverlap == InitFail /\ [][NextOverlap]_vars

\* ------------------------------------------- the scan of a large directory
\* what the cache holds of file k of /l when the scan begins: nothing
\* ("new", a full read), an entry with its mtime and size and another rating
\* ("rated", a fast-skip rating update) or an entry equal to the file ("same")
NewThenRated(a) == [k \in 1..MaxLarge |-> IF k <= a THEN "new" ELSE "rated"]
RatedThenNew(a) == [k \in 1..MaxLarge |-> IF k <= a THEN "rated" ELSE "new"]
Interleaved ==
  [k \in 1..MaxLarge |->
     IF k % 3 = 0 THEN "same" ELSE IF k % 3 = 1 THEN "new" ELSE "rated"]
SwitchPoints == {0, FastBatchLimit - 1, FastBatchLimit, FullBatchLimit - 1,
                 FullBatchLimit, MaxLarge}
LargePlans == {NewThenRated(a) : a \in SwitchPoints}
                \cup {RatedThenNew(a) : a \in SwitchPoints} \cup {Interleaved}
LargeRating == ReadBfsRating(InitAttrs(FileC).rating)
\* the entry an earlier scan left in the map for f, read with that rating
CachedItem(f, rating) ==
  BatchEntry([what |-> "MSG_MEDIA_BATCH", base |-> RootL,
              items |-> << BatchFields(
                 FullReadItem(f, InitStat, InitTags(FileC),
                              [InitAttrs(FileC) EXCEPT !.rating = rating,
                                                       !.disc = 0,
                                                       !.lengthSec = 0,
                                                       !.bitrate = 0],
                              TRUE)) >>], 1)
LargeCache(plan) ==
  [f \in {LargeFile(k) : k \in {j \in 1..MaxLarge : plan[j] # "new"}} |->
     CachedItem(f, IF plan[LargeIndex(f)] = "same" THEN LargeRating ELSE 0)]

\* /l is the one configured directory, the cache was loaded and a rescan
\* has been requested
InitBatch ==
  /\ dirs = <<RootL>>
  /\ online = Dirs
  /\ exists = [f \in Files \cup Links \cup LargeFiles |-> f \notin Links]
  /\ stat = [f \in Files \cup LargeFiles |-> InitStat]
  /\ fileTags = [f \in Files \cup LargeFiles |->
                   IF f \in Files THEN InitTags(f) ELSE InitTags(FileC)]
  /\ fileAttrs = [f \in Files \cup LargeFiles |->
                    IF f \in Files THEN InitAttrs(f) ELSE InitAttrs(FileC)]
  /\ \E plan \in LargePlans : fEntries = LargeCache(plan)
  /\ fActiveScanners = 0
  /\ cacheQueue = << [what |-> "MSG_RESCAN"] >>
  /\ cacheFile = SaveCache(fEntries)
  /\ scanners = <<>>
  /\ ui = ZeroUi
  /\ hist = InitHist
  /\ sync = NoSync
  /\ call = NoCall

NextBatch ==
  \/ CacheReceive
  \/ \E i \in 1..Len(scanners) : WorkerBegin(i)
  \/ \E i \in 1..Len(scanners) : OpenDir(i)
  \/ \E i \in 1..Len(scanners) : NextEntry(i)
  \/ \E i \in 1..Len(scanners) : Finish(i)
  \/ \E i \in 1..Len(scanners) : StopScanner(i)

SpecBatch == InitBatch /\ [][NextBatch]_vars

\* scans, batches and metadata edits while another program leaves the
\* Media:Rating attribute absent, negative, zero, in range or above 10
RatingAttrCases == {NoAttr, Attr(0 - 1), Attr(0), Attr(10), Attr(12)}
NextRating ==
  \/ Engine
  \/ \E f \in Files : ModifyFile(f)
  \/ \E f \in Files, r \in RatingAttrCases : SetRatingAttr(f, r)
  \/ \E f \in Files, e \in Edits : SaveTags(f, e)

SpecRating == Init /\ [][NextRating]_vars

\* the application is closed and started again: a new CacheManager handles
\* MSG_LOAD_CACHE
Restart ==
  /\ Quiescent
  /\ hist.stops = 0
  /\ hist.envOps < MaxEnvOps
  /\ hist' = [InitHist EXCEPT !.envOps = hist.envOps + 1]
  /\ fEntries' = OnLoadCache(ArchiveFile(cacheFile)).entries
  /\ fActiveScanners' = 0
  /\ scanners' = <<>>
  /\ ui' = [ZeroUi EXCEPT !.cacheLoaded = OnLoadCache(ArchiveFile(cacheFile)).loaded]
  /\ call' = [op |-> "restart", at |-> hist.envOps + 1]
  /\ UNCHANGED <<dirs, online, exists, stat, fileTags, fileAttrs, cacheQueue,
                 cacheFile, sync>>

NextRestart ==
  \/ Engine
  \/ \E d \in OfflineDirs : ToggleOnline(d)
  \/ \E f \in Files, e \in Edits : SaveTags(f, e)
  \/ Restart

SpecRestart == Init /\ [][NextRestart]_vars

\* a symbolic link to /m is created in /m/s after /m/s/b.mp3 was cached
MakeLink ==
  /\ EnvStep
  /\ ~exists[LinkUp]
  /\ RootM \in online
  /\ FileB \in DOMAIN fEntries
  /\ exists' = [exists EXCEPT ![LinkUp] = TRUE]
  /\ UNCHANGED <<dirs, online, stat, fileTags, fileAttrs, cacheQueue, sync, call>>

\* a step of the worker thread of scanner i
WorkerStep(i) ==
  /\ i \in 1..Len(scanners)
  /\ WorkerBegin(i) \/ OpenDir(i) \/ NextEntry(i) \/ Finish(i)

NextLinks ==
  \/ Engine
  \/ MakeLink

\* every thread that can run does run: the cache looper and the workers
SpecLinks ==
  /\ Init
  /\ [][NextLinks]_vars
  /\ WF_vars(CacheReceive)
  /\ \A i \in 1..2 : WF_vars(WorkerStep(i))

\* ================================================================ claims
\* the scan begun by the last StartScan spawned scanners
ScanSpawned == hist.started /\ hist.spawned >= 1
\* the cache has processed the scan-done of every scanner of that scan
ScanComplete == hist.started /\ hist.dones >= hist.spawned

C2_ListenerOneScanDone ==
  ScanSpawned =>
    /\ ui.scanDone <= 1
    /\ (hist.dones >= hist.spawned) => ui.scanDone = 1

\* a scanner whose stop signal was raised while it was traversing and whose
\* worker has terminated
StoppedTraversing(sc) == sc.pc = "exited" /\ sc.stopAt \in {"outer", "inner"}

Inside(p, r) == StartsWith(p, r \o <<"/">>)
\* the file is on disk under a configured root that can be opened
FoundByScan(p) ==
  /\ p \in Files
  /\ FileOnDisk(p)
  /\ \E k \in 1..Len(dirs) : Inside(p, dirs[k]) /\ DirReachable(dirs[k])
\* the last scan has completed and nothing changed on disk since it began
ScanSettled == ScanComplete /\ Quiescent /\ ~hist.dirty

\* C4: after a completed scan no entry is flagged missing while its file is
\* on disk under a reachable configured root
C4_MissingReflectsDisk ==
  ScanSettled =>
    \A p \in DOMAIN fEntries : FoundByScan(p) => ~fEntries[p].missing

\* C6: a scan that begins right after a completed scan, with nothing changed
\* on disk between, has no scanner send a batch and ends with the map it
\* began with
C6_RescanIdempotent ==
  (hist.clean /\ ~hist.dirty) =>
    /\ \A i \in 1..Len(scanners) : scanners[i].batches = 0
    /\ ScanComplete => fEntries = hist.baseline

\* the cache looper takes a message of this kind off its queue
Receives(what) ==
  /\ cacheQueue # <<>>
  /\ Head(cacheQueue).what = what
  /\ cacheQueue' = Tail(cacheQueue)
ConfiguredDirs == {dirs[k] : k \in 1..Len(dirs)}

\* C5: StartScan erases exactly the entries whose base is not a configured
\* directory, and the snapshot of every scanner it spawns holds only entries
\* of configured directories
C5_HardPrune ==
  [][Receives("MSG_RESCAN") =>
       /\ DOMAIN fEntries' =
            {p \in DOMAIN fEntries : fEntries[p].base \in ConfiguredDirs}
       /\ \A i \in 1..Len(scanners') :
            scanners'[i].pc = "waiting" =>
              /\ \A p \in DOMAIN scanners'[i].fCache :
                    scanners'[i].fCache[p].base \in ConfiguredDirs
              /\ DOMAIN scanners'[i].fCache \cap hist'.pruned = {}]_vars
C5_Witness ==
  /\ hist.pruned # {}
  /\ \E i \in 1..Len(scanners) :
       /\ scanners[i].pc = "waiting"
       /\ DOMAIN scanners[i].fCache # {}
       /\ DOMAIN scanners[i].fCache = DOMAIN fEntries

\* scanner i takes file f, whose mtime and size equal the snapshot's, from
\* the directory it is reading
FastSkipCase(i, f) ==
  LET sc == scanners[i]
  IN /\ sc.pc = "inner"
     /\ ~sc.fStopRequested
     /\ Head(sc.pending) = f
     /\ FileOnDisk(f)
     /\ f \in DOMAIN sc.fCache
     /\ sc.fCache[f].mtime = stat[f].mtime
     /\ sc.fCache[f].size = stat[f].size
     /\ Len(scanners') = Len(scanners)
     /\ scanners'[i] # sc
\* what the step adds to the entries scanner i has emitted, and whether the
\* tag reader ran
Emits(i, items) ==
  /\ scanners'[i].found = scanners[i].found \o items
  /\ scanners'[i].tagReads = scanners[i].tagReads

\* C7 as stated: a present rating attribute that differs from the cached
\* rating makes the fast skip emit one entry, the cached one with the
\* attribute's value as rating, without a tag read; an equal one emits nothing
C7_FastSkipAttributeValue ==
  [][\A i \in 1..Len(scanners) : \A f \in Files :
       (FastSkipCase(i, f) /\ fileAttrs[f].rating # NoAttr) =>
          LET old == scanners[i].fCache[f]
              v == AttrValue(fileAttrs[f].rating)
          IN IF v # old.rating
             THEN Emits(i, <<[old EXCEPT !.rating = v]>>)
             ELSE Emits(i, <<>>)]_vars

\* C7 amended: the rating compared and emitted is the attribute's value when
\* that lies within 0..10 and 0 when the attribute is absent or out of range
C7_FastSkipNormalisedRating ==
  [][\A i \in 1..Len(scanners) : \A f \in Files :
       FastSkipCase(i, f) =>
          LET old == scanners[i].fCache[f]
              raw == fileAttrs[f].rating
              v == IF raw = NoAttr THEN 0
                   ELSE IF AttrValue(raw) < 0 \/ AttrValue(raw) > 10 THEN 0
                   ELSE AttrValue(raw)
          IN IF v # old.rating
             THEN Emits(i, <<[old EXCEPT !.rating = v]>>)
             ELSE Emits(i, <<>>)]_vars
C7_Witness ==
  \E i \in 1..Len(scanners) :
    /\ scanners[i].tagReads = 0
    /\ scanners[i].found # <<>>
    /\ LET it == scanners[i].found[1]
       IN /\ fileAttrs[it.path].rating = Attr(12)
          /\ it.rating = 0
          /\ scanners[i].fCache[it.path].rating = 3
          /\ it = [scanners[i].fCache[it.path] EXCEPT !.rating = 0]

\* C8: once the cache has processed a batch message, the entry of every path
\* of the batch carries the fields of the entry the scanner buffered for it
C8_BatchFidelity ==
  [][Receives("MSG_MEDIA_BATCH") =>
       LET buf == Head(cacheQueue).buffer
       IN \A k \in 1..Len(buf) :
            (\A j \in (k + 1)..Len(buf) : buf[j].path # buf[k].path) =>
               /\ buf[k].path \in DOMAIN fEntries'
               /\ LET e == fEntries'[buf[k].path]
                      b == buf[k]
                  IN /\ e.path = b.path /\ e.title = b.title
                     /\ e.artist = b.artist /\ e.album = b.album
                     /\ e.genre = b.genre /\ e.year = b.year
                     /\ e.track = b.track /\ e.disc = b.disc
                     /\ e.duration = b.duration /\ e.bitrate = b.bitrate
                     /\ e.size = b.size /\ e.mtime = b.mtime
                     /\ e.inode = b.inode /\ e.rating = b.rating
                     /\ e.mbAlbumId = b.mbAlbumId
                     /\ e.mbArtistId = b.mbArtistId
                     /\ e.mbTrackId = b.mbTrackId]_vars

\* the map after the batches of scanners i.. are applied scanner by scanner,
\* in the order the scanners were spawned
RECURSIVE InSpawnOrder(_, _)
InSpawnOrder(entries, i) ==
  IF i > Len(scanners) THEN entries
  ELSE InSpawnOrder(
         ApplyBatch(entries,
                    [base |-> scanners[i].fBasePath,
                     items |-> [k \in 1..Len(scanners[i].sent) |->
                                  BatchFields(scanners[i].sent[k])]],
                    1),
         i + 1)

\* C9: when every scanner of a scan has reported done, the map is the one
\* any arrival order of the scanners' batches gives, the spawn order included
C9_ArrivalOrderIndependent ==
  (ScanSpawned /\ ScanSettled) =>
     fEntries = InSpawnOrder(hist.startEntries, 1)

\* C10: the update a metadata edit sends leaves base, rating, missing, size,
\* mtime and inode of the existing entry as they were
C10_EditFrame ==
  [][(Receives("MSG_MEDIA_ITEM_FOUND")
        /\ Head(cacheQueue).path \in DOMAIN fEntries) =>
       LET p == Head(cacheQueue).path
       IN /\ p \in DOMAIN fEntries'
          /\ fEntries'[p].base = fEntries[p].base
          /\ fEntries'[p].rating = fEntries[p].rating
          /\ fEntries'[p].missing = fEntries[p].missing
          /\ fEntries'[p].size = fEntries[p].size
          /\ fEntries'[p].mtime = fEntries[p].mtime
          /\ fEntries'[p].inode = fEntries[p].inode]_vars
\* C11: while a conflict SyncMetadata asked about is undecided, the conflict
\* message (path, index, total of the file) is the last thing SyncMetadata
\* has sent: no later file is processed and no sync-done is reported
C11_ConflictBlocks ==
  \A j \in 1..Len(sync.out) :
    (sync.out[j].what = "MSG_SYNC_CONFLICT"
       /\ sync.out[j].index \in PendingConflicts) =>
       /\ sync.out[j].path = sync.files[sync.out[j].index + 1]
       /\ sync.out[j].total = Len(sync.files)
       /\ j = Len(sync.out)
       /\ sync.i = sync.out[j].index + 1
       /\ sync.pc = "running"
\* scanner i has been started and its worker has not returned
Traversing(i) == i \in 1..Len(scanners) /\ Running(scanners[i])
\* the worker of scanner i has emptied its stack and reported completion
Completed(i) ==
  /\ i \in 1..Len(scanners)
  /\ scanners[i].pc = "exited"
  /\ scanners[i].stack = <<>>
  /\ scanners[i].doneSent

\* C12: every traversal that was started terminates with an empty stack and
\* reports completion, links to directories already visited included
C12_TraversalTerminates ==
  \A i \in 1..2 : Traversing(i) ~> Completed(i)
\* C13: a StartScan that finds no configured root reachable (or none
\* configured) saves the cache once and sends one scan-done within the call,
\* with no scanner spawned and no scan-done signal awaited
C13_ZeroScannersSynchronous ==
  [][(Receives("MSG_RESCAN") /\ \A k \in 1..Len(dirs) : ~DirReachable(dirs[k])) =>
       /\ \A i \in 1..Len(scanners') : ~Running(scanners'[i])
       /\ fActiveScanners' = 0
       /\ cacheFile' = SaveCache(fEntries')
       /\ hist'.saves = 1
       /\ hist'.forwarded = 1
       /\ ui'.scanDone = 1]_vars
C13_Witness ==
  /\ hist.started
  /\ hist.spawned = 0
  /\ dirs # <<>>
  /\ ui.baseOffline = Len(dirs)
  /\ hist.saves = 1
  /\ ui.scanDone = 1
  /\ cacheFile = SaveCache(fEntries)
  /\ fEntries # EmptyMap
\* C14: a rating 0..10 written as a byte and read back is the same rating
C14_RatingRoundTrip ==
  (call.op = "rating" /\ call.pc = "done" /\ call.rating <= 10) =>
     call.back = call.rating

\* scanner i takes file f, which is new or whose mtime or size differ from
\* the snapshot's, from the directory it is reading
FullReadCase(i, f) ==
  LET sc == scanners[i]
  IN /\ sc.pc = "inner"
     /\ ~sc.fStopRequested
     /\ Head(sc.pending) = f
     /\ FileOnDisk(f)
     /\ IsSupportedAudioFile(f)
     /\ ~(/\ f \in DOMAIN sc.fCache
          /\ sc.fCache[f].mtime = stat[f].mtime
          /\ sc.fCache[f].size = stat[f].size)
     /\ Len(scanners') = Len(scanners)
     /\ scanners'[i] # sc
\* the Media:Rating attribute of the file holds a value above 10
AboveTen(f) == fileAttrs[f].rating # NoAttr /\ AttrValue(fileAttrs[f].rating) > 10
\* the step of scanner i handles a file whose attribute is above 10 as if
\* the attribute held r: the fast skip emits the cached entry with rating r
\* unless that is the cached rating, the full read emits an entry of rating r
RatingAboveTenReadAs(r) ==
  \A i \in 1..Len(scanners) : \A f \in Files :
    /\ (FastSkipCase(i, f) /\ AboveTen(f)) =>
          LET old == scanners[i].fCache[f]
          IN IF r # old.rating
             THEN Emits(i, <<[old EXCEPT !.rating = r]>>)
             ELSE Emits(i, <<>>)
    /\ (FullReadCase(i, f) /\ AboveTen(f)) =>
          /\ Len(scanners'[i].found) = Len(scanners[i].found) + 1
          /\ scanners'[i].found[Len(scanners'[i].found)].path = f
          /\ scanners'[i].found[Len(scanners'[i].found)].rating = r
\* every rating above 10 is written as the byte of rating 10
EncodesAboveTenAsTen ==
  \A r \in 11..MaxRatingIn : RatingToByte(r) = RatingToByte(10)

\* C15 as stated: ratings above 10 are encoded as rating 10, and a native
\* rating attribute above 10 yields rating 10 in the entry the scanner
\* emits, on the fast-skip path and on the full-read path
C15_AboveTenClampedToTen ==
  EncodesAboveTenAsTen /\ [][RatingAboveTenReadAs(10)]_vars

\* C15 amended: ratings above 10 are encoded as rating 10, and a native
\* rating attribute above 10 is read as rating 0 (no rating) on the
\* fast-skip path and on the full-read path
C15_AboveTenEncodedTenReadZero ==
  EncodesAboveTenAsTen /\ [][RatingAboveTenReadAs(0)]_vars
C15_Witness ==
  \E i \in 1..Len(scanners) :
    /\ scanners[i].tagReads = 1
    /\ Len(scanners[i].found) = 1
    /\ LET it == scanners[i].found[1]
       IN /\ AboveTen(it.path)
          /\ it.rating = 0
          /\ it.path \notin DOMAIN scanners[i].fCache

\* C16: every entry of the cache has a rating within 0..10, whatever the
\* files' Media:Rating attributes hold and whatever scans, batches and
\* metadata edits have happened
C16_RatingInRange ==
  \A p \in DOMAIN fEntries : fEntries[p].rating \in 0..10
C16_Witness ==
  /\ cacheQueue = <<>>
  /\ {FileB, FileC} \subseteq DOMAIN fEntries
  /\ fileAttrs[FileB].rating = Attr(12)
  /\ fileAttrs[FileC].rating = Attr(0 - 1)
  /\ \E i \in 1..Len(scanners) : \E k \in 1..Len(scanners[i].found) :
       scanners[i].found[k].path = FileB
  /\ \E i \in 1..Len(scanners) : \E k \in 1..Len(scanners[i].found) :
       scanners[i].found[k].path = FileC

\* a call of SmartMerge has returned
Merged == call.op = "merge" /\ call.pc = "done"
\* exactly one side of field f is empty or zero
OnlySecondaryHas(f) ==
  IsEmptyField(call.primary, f) /\ ~IsEmptyField(call.secondary, f)
OnlyPrimaryHas(f) ==
  ~IsEmptyField(call.primary, f) /\ IsEmptyField(call.secondary, f)
\* both sides of field f are non-empty and unequal
BothDiffer(f) ==
  /\ ~IsEmptyField(call.primary, f)
  /\ ~IsEmptyField(call.secondary, f)
  /\ call.primary[f] # call.secondary[f]
\* the fields of the result that hold the secondary's value and not the
\* primary's
FilledFields == {f \in DOMAIN call.out : /\ call.out[f] # call.primary[f]
                                          /\ call.out[f] = call.secondary[f]}

\* C17: in the result of SmartMerge every scalar field of TagData of which
\* exactly one side is empty holds the non-empty side's value, and the call
\* reports a change when the primary side was the empty one
C17_FillsEveryScalarField ==
  Merged =>
    \A f \in DOMAIN DefaultTagData :
      /\ OnlySecondaryHas(f) =>
           (call.out[f] = call.secondary[f] /\ call.changed)
      /\ OnlyPrimaryHas(f) => call.out[f] = call.primary[f]

\* C18: hasConflict is true exactly when one of the fields SmartMerge merges
\* has both sides non-empty and unequal, and every such field of the result
\* holds the primary's value
C18_ConflictFlag ==
  Merged =>
    /\ call.hasConflict = (\E f \in MergedFields : BothDiffer(f))
    /\ \A f \in MergedFields : BothDiffer(f) => call.out[f] = call.primary[f]
C18_Witness ==
  /\ Merged
  /\ call.hasConflict
  /\ BothDiffer("rating")
  /\ OnlySecondaryHas("title")
  /\ call.out.rating = call.primary.rating

\* C19 as stated: the value SmartMerge returns is true when at least one
\* field was filled from the secondary and false when none was, a pure
\* conflict included
C19_ChangedIffFilled ==
  Merged => (call.changed = (FilledFields # {}))

\* C19 amended: the value SmartMerge returns is true when at least one field
\* was filled from the secondary or hasConflict is set, and false otherwise;
\* for a pure conflict it is true
C19_ChangedIffFilledOrConflict ==
  Merged => (call.changed = (FilledFields # {} \/ call.hasConflict))
C19_Witness ==
  /\ Merged
  /\ FilledFields = {}
  /\ \E f \in MergedFields : BothDiffer(f)
  /\ \A f \in DOMAIN DefaultTagData : ~OnlySecondaryHas(f)
  /\ call.changed

\* C20: SmartMerge of a TagData with itself returns that TagData, reports no
\* change and no conflict
C20_SelfMergeNoOp ==
  (Merged /\ call.primary = call.secondary) =>
     /\ call.out = call.primary
     /\ ~call.changed
     /\ ~call.hasConflict
C20_Witness ==
  /\ Merged
  /\ call.primary = call.secondary
  /\ call.primary.title = "A"
  /\ call.primary.rating = 2
  /\ call.out = call.primary

\* a call of MergeMetadata has returned
MergedMetadata == call.op = "mergeMetadata" /\ call.pc = "done"

\* C21: under overwrite the result of MergeMetadata equals primary in every
\* field; under fill-empty each field it merges holds primary's value when
\* that is non-empty and secondary's value otherwise
C21_MergeMetadataPolicies ==
  MergedMetadata =>
    /\ call.mode = "CONFLICT_OVERWRITE" => call.out = call.primary
    /\ call.mode = "CONFLICT_FILL_EMPTY" =>
         \A f \in MergedFields :
           call.out[f] = IF IsEmptyField(call.primary, f)
                         THEN call.secondary[f] ELSE call.primary[f]
C21_Witness ==
  /\ MergedMetadata
  /\ call.mode = "CONFLICT_FILL_EMPTY"
  /\ call.primary.artist = ""
  /\ call.secondary.artist = "A"
  /\ call.out.artist = "A"
  /\ call.primary.title = "B"
  /\ call.secondary.title = "A"
  /\ call.out.title = "B"

\* the configured sources whose directory holds the file
SourcesAbove(filePath, sources) ==
  {k \in 1..Len(sources) : Inside(filePath, sources[k].path)}

Decimal(n) ==
  IF n < 10 THEN <<DigitChars[n + 1]>>
  ELSE <<DigitChars[(n \div 10) + 1], DigitChars[(n % 10) + 1]>>

\* C23: a pair (n, total) is written as the decimal n alone when total = 0
\* and n > 0, as "n/total" when total > 0 and as no value when both are 0,
\* and parsing what was written gives (n, total) again
C23_PairRoundTrip ==
  (call.op = "pair" /\ call.pc = "done") =>
    /\ (call.n = 0 /\ call.tot = 0) => ~call.frame.present
    /\ (call.n > 0 /\ call.tot = 0) =>
         (call.frame.present /\ call.frame.text = Decimal(call.n))
    /\ call.tot > 0 =>
         /\ call.frame.present
         /\ call.frame.text = Decimal(call.n) \o <<"/">> \o Decimal(call.tot)
    /\ call.back = <<call.n, call.tot>>
C23_Witness ==
  /\ call.op = "pair"
  /\ call.pc = "done"
  /\ call.n = 5
  /\ call.tot = 12
  /\ call.frame.text = <<"5", "/", "1", "2">>
  /\ call.back = <<5, 12>>

C25_BfsRoundTrip ==
  (call.op = "bfs" /\ call.pc = "done") =>
    \A f \in DOMAIN WrittenKey : call.back[f] = call.td[f]

\* C26: after AddOrUpdateEntry the map holds the given entry under its path,
\* every other key and entry as before and at most one key more, and the
\* same call again changes nothing
C26_Upsert ==
  (call.op = "upsert" /\ call.pc = "done") =>
    /\ call.entry.path \in DOMAIN call.out
    /\ call.out[call.entry.path] = call.entry
    /\ DOMAIN call.out = DOMAIN call.entries \cup {call.entry.path}
    /\ \A k \in DOMAIN call.entries \ {call.entry.path} :
         call.out[k] = call.entries[k]
    /\ Cardinality(DOMAIN call.out) <= Cardinality(DOMAIN call.entries) + 1
    /\ call.again = call.out
C26_Witness ==
  /\ call.op = "upsert"
  /\ call.pc = "done"
  /\ DOMAIN call.entries = Files
  /\ call.entries[call.entry.path].mbTrackId = "T"
  /\ call.entry.mbTrackId = ""
  /\ call.out[call.entry.path].mbTrackId = ""

\* the non-empty lines of a text, the last one with or without its newline
RECURSIVE LinesOf(_, _)
LinesOf(text, line) ==
  IF text = <<>> THEN (IF line = <<>> THEN <<>> ELSE <<line>>)
  ELSE IF Head(text) = "\n"
  THEN (IF line = <<>> THEN <<>> ELSE <<line>>) \o LinesOf(Tail(text), <<>>)
  ELSE LinesOf(Tail(text), Append(line, Head(text)))

\* C27: with directories.settings absent and directories.txt listing paths,
\* LoadDirectories yields the non-empty lines of directories.txt, before and
\* after the directory manager migrated them; a directories.settings that
\* was there is the only file consulted
C27_LegacyFallback ==
  (call.op = "loadDirectories" /\ call.pc \in {"done", "doneAfterWindow"}) =>
    LET fresh == IF call.pc = "done" THEN ~call.settings.present
                 ELSE call.migrated
    IN /\ (fresh /\ call.legacy.present) =>
            call.outDirs = LinesOf(call.legacy.text, <<>>)
       /\ ~fresh =>
            call.outDirs = [i \in 1..Len(call.settings.sources) |->
                              call.settings.sources[i].path]
\* the configured directories that can, and that cannot, be opened
ReachableRoots == SelectSeq(dirs, DirReachable)
UnreachableRoots == SelectSeq(dirs, LAMBDA d : ~DirReachable(d))

\* C28: StartScan launches one scanner for each configured directory that can
\* be opened, in the order of the list, and none for another; for every
\* configured directory that cannot be opened the entries under it are marked
\* missing and one MSG_BASE_OFFLINE is sent; fActiveScanners on return is the
\* number of scanners launched
C28_StartScanSpawns ==
  [][Receives("MSG_RESCAN") =>
       LET kept == Len(SelectSeq(scanners, Running))
       IN /\ Len(scanners') = kept + Len(ReachableRoots)
          /\ \A k \in 1..Len(ReachableRoots) :
                /\ scanners'[kept + k].fBasePath = ReachableRoots[k]
                /\ scanners'[kept + k].pc = "waiting"
          /\ fActiveScanners' = Len(ReachableRoots)
          /\ ui'.baseOffline = Len(UnreachableRoots)
          /\ \A k \in 1..Len(UnreachableRoots) :
                \A p \in DOMAIN fEntries' :
                  Inside(p, UnreachableRoots[k]) => fEntries'[p].missing]_vars
C28_Witness ==
  /\ Len(ReachableRoots) = 1
  /\ Len(UnreachableRoots) = 1
  /\ fActiveScanners = 1
  /\ ui.baseOffline = 1
  /\ Len(scanners) = 1
  /\ scanners[1].pc = "waiting"
  /\ scanners[1].fBasePath = ReachableRoots[1]
  /\ \E p \in DOMAIN fEntries :
       Inside(p, UnreachableRoots[1]) /\ fEntries[p].missing

\* the messages a worker step appends to the queue of the cache
Posted == SubSeq(cacheQueue', Len(cacheQueue) + 1, Len(cacheQueue'))
\* the items of a sequence of MSG_MEDIA_BATCH messages, in the order sent
RECURSIVE ItemsOf(_)
ItemsOf(ms) == IF ms = <<>> THEN <<>> ELSE Head(ms).items \o ItemsOf(Tail(ms))
IsBatch(m) == m.what = "MSG_MEDIA_BATCH"
IsDone(m) == m.what = "MSG_SCAN_DONE"

\* C29: the items of the batch messages a scanner sends are, one after the
\* other and each once, the entries it appended to fBatchBuffer in the order
\* it found them; what is not yet sent is in the buffer, nothing is left when
\* the worker has returned, and no batch message follows its MSG_SCAN_DONE
C29_BatchesInOrder ==
  [][\A i \in 1..Len(scanners) :
       WorkerStep(i) =>
         LET sc == scanners[i]
             sc2 == scanners'[i]
             n == Len(sc.sent)
             batchesPosted == SelectSeq(Posted, IsBatch)
         IN /\ ItemsOf(batchesPosted) =
                 [k \in 1..(Len(sc2.sent) - n) |-> BatchFields(sc2.found[n + k])]
            /\ Len(sc2.sent) + Len(sc2.fBatchBuffer) = Len(sc2.found)
            /\ StartsWith(sc2.found, sc.found)
            /\ \A b \in (Len(sc.found) + 1)..Len(sc2.found) :
                 b > 1 => LargeIndex(sc2.found[b - 1].path)
                            < LargeIndex(sc2.found[b].path)
            /\ sc2.pc = "exited" => Len(sc2.sent) = Len(sc2.found)
            /\ sc.doneSent => Posted = <<>>
            /\ (\E k \in 1..Len(Posted) : IsDone(Posted[k])) =>
                 /\ IsDone(Posted[Len(Posted)])
                 /\ Len(SelectSeq(Posted, IsDone)) = 1
                 /\ sc2.fBatchBuffer = <<>>]_vars
C29_Witness ==
  \E i \in 1..Len(scanners) :
    /\ scanners[i].doneSent
    /\ scanners[i].batches >= 2
    /\ Len(scanners[i].found) > FullBatchLimit
    /\ scanners[i].sent = scanners[i].found

\* C30: a MSG_MEDIA_BATCH carries at most 100 entries, fBatchBuffer holds
\* fewer than 100 entries between two calls of ProcessFile, and it is empty
\* once the scanner has sent its MSG_SCAN_DONE
C30_BatchBound ==
  /\ \A k \in 1..Len(cacheQueue) :
       IsBatch(cacheQueue[k]) => Len(cacheQueue[k].items) <= FullBatchLimit
  /\ \A i \in 1..Len(scanners) :
       /\ Len(scanners[i].fBatchBuffer) < FullBatchLimit
       /\ scanners[i].doneSent => scanners[i].fBatchBuffer = <<>>
\* a message of 100 entries that begins with a full read and ends with a
\* fast-skip rating update
C30_Witness ==
  \E i \in 1..Len(scanners), k \in 1..Len(cacheQueue) :
    /\ IsBatch(cacheQueue[k])
    /\ Len(cacheQueue[k].items) = FullBatchLimit
    /\ cacheQueue[k].items[1].path \notin DOMAIN scanners[i].fCache
    /\ cacheQueue[k].items[FullBatchLimit].path \in DOMAIN scanners[i].fCache

\* the value of the field is the empty string, or zero
IsEmptyValue(f, v) == IF f \in FallbackStrings THEN v = "" ELSE v = 0

\* C31: in a full read every field the tags leave empty or zero takes the
\* value of the native attribute that has one, whatever the other fields
\* are, and the title of the entry is never empty
C31_FullReadFallbacks ==
  (call.op = "fullRead" /\ call.pc = "done") =>
    /\ \A f \in FallbackFields :
         (IsEmptyValue(f, call.tags[f]) /\ ~IsEmptyValue(f, call.attrs[AttrOf(f)])) =>
           call.out[f] = call.attrs[AttrOf(f)]
    /\ call.out.title # ""

\* the paths of the entries a scanner appended to its buffer
FoundPaths(sc) == {sc.found[k].path : k \in 1..Len(sc.found)}

\* C32: a directory that cannot be opened, a file that cannot be stat'd and
\* a file whose tag extraction throws end no scan: when the worker has
\* returned it has sent MSG_SCAN_DONE, its buffer is empty, all it found was
\* sent, and every supported file still on disk under its root was processed
C32_FailuresSkipped ==
  \A i \in 1..Len(scanners) :
    scanners[i].pc = "exited" =>
      /\ scanners[i].doneSent
      /\ scanners[i].fBatchBuffer = <<>>
      /\ scanners[i].sent = scanners[i].found
      /\ \A f \in Files :
           (FileOnDisk(f) /\ Inside(f, scanners[i].fBasePath)) =>
             f \in FoundPaths(scanners[i])
\* two workers have returned: one processed a file TagLib throws on, the
\* other lost a file or a directory under its root
C32_Witness ==
  \E i, j \in 1..Len(scanners) :
    /\ scanners[i].pc = "exited" /\ scanners[i].doneSent
    /\ scanners[j].pc = "exited" /\ scanners[j].doneSent
    /\ \E f \in Files : Throws(fileTags[f]) /\ f \in FoundPaths(scanners[i])
    /\ \E g \in Files :
         /\ ~FileOnDisk(g)
         /\ Inside(g, scanners[j].fBasePath)
         /\ g \notin FoundPaths(scanners[j])

\* C33: no two scanners are running for the same configured directory, also
\* when MSG_RESCAN reaches the cache before the scanners of the scan before
\* have reported
C33_OneScannerPerRoot ==
  \A i, j \in 1..Len(scanners) :
    (i # j /\ Running(scanners[i]) /\ Running(scanners[j])) =>
      scanners[i].fBasePath # scanners[j].fBasePath

\* the scanners that were spawned and whose MSG_SCAN_DONE the cache has not
\* processed: those still running and those whose signal is in the queue
Outstanding ==
  Cardinality({i \in 1..Len(scanners) : Running(scanners[i])})
    + Len(SelectSeq(cacheQueue, IsDone))

\* C34: fActiveScanners is the number of scanners spawned whose
\* MSG_SCAN_DONE the cache has not yet processed, and it is never negative
C34_CountExact ==
  /\ fActiveScanners >= 0
  /\ fActiveScanners = Outstanding

\* the cache performs the completion save of a scan that spawned scanners
CompletionSave ==
  /\ Receives("MSG_SCAN_DONE")
  /\ hist'.saves = hist.saves + 1
\* the scanners spawned by the last StartScan
LastSpawned == {i \in 1..Len(scanners) : i > Len(scanners) - hist.spawned}

\* C35: when the cache saves at the completion of a scan, every scanner of
\* that scan has returned with all it found sent, and no MSG_MEDIA_BATCH is
\* left in the queue to be processed after the save
C35_SaveAfterBatches ==
  [][CompletionSave =>
       /\ \A i \in LastSpawned :
            /\ scanners[i].pc = "exited"
            /\ scanners[i].sent = scanners[i].found
       /\ SelectSeq(cacheQueue', IsBatch) = <<>>]_vars

\* C36: MarkBaseOffline, as StartScan calls it for the directories that
\* cannot be opened, flags no entry that lies under none of them: an entry
\* whose file is on disk and that was not flagged stays not flagged
C36_OfflineOnlyOwnEntries ==
  [][Receives("MSG_RESCAN") =>
       \A p \in DOMAIN fEntries \cap DOMAIN fEntries' :
         (/\ ~fEntries[p].missing
          /\ FileOnDisk(p)
          /\ \A k \in 1..Len(UnreachableRoots) : ~Inside(p, UnreachableRoots[k]))
           => ~fEntries'[p].missing]_vars

\* SyncMetadata processes the next file of its list
SyncsFile(f) ==
  /\ sync.pc = "running"
  /\ sync.i < Len(sync.files)
  /\ sync'.i = sync.i + 1
  /\ f = sync.files[sync.i + 1]
\* what SmartMerge yields for the file under the settings of the running call
SyncMerge(f) ==
  IF sync.src.primary = "SOURCE_BFS"
  THEN SmartMerge(BfsData(f), TagsData(f))
  ELSE SmartMerge(TagsData(f), BfsData(f))

\* C37: when SyncMetadata has processed a file without a conflict, the tags
\* and the native attributes both read back as the merged value in every
\* field SmartMerge merges, and a second pass over the file would report no
\* change and write nothing
C37_SyncConverges ==
  [][\A f \in Files :
       (SyncsFile(f) /\ ~SyncMerge(f).hasConflict) =>
         /\ \A k \in MergedFields :
              /\ TagsData(f)'[k] = SyncMerge(f).out[k]
              /\ BfsData(f)'[k] = SyncMerge(f).out[k]
         /\ ~SyncMerge(f)'.result
         /\ ~HasDifferences(SyncMerge(f)'.out, TagsData(f)')
         /\ ~HasDifferences(SyncMerge(f)'.out, BfsData(f)')]_vars

\* what MergeMetadata yields for the file under the settings of the running
\* call
SyncPolicyMerge(f) ==
  IF sync.src.primary = "SOURCE_BFS"
  THEN MergeMetadata(BfsData(f), TagsData(f), sync.src.conflictMode)
  ELSE MergeMetadata(TagsData(f), BfsData(f), sync.src.conflictMode)
\* the MSG_MEDIA_ITEM_FOUND messages a step of SyncMetadata sends
SyncUpdates ==
  SelectSeq(SubSeq(sync'.out, Len(sync.out) + 1, Len(sync'.out)),
            LAMBDA m : m.what = "MSG_MEDIA_ITEM_FOUND")

\* C38: under the policy overwrite what SyncMetadata writes to the tags and
\* to the native attributes, and what it reports, are the values of
\* MergeMetadata(primary, secondary, overwrite), the primary source's
C38_SyncHonoursOverwrite ==
  [][\A f \in Files :
       (SyncsFile(f) /\ sync.src.conflictMode = "CONFLICT_OVERWRITE") =>
         /\ fileTags'[f] # fileTags[f] =>
              fileTags'[f] = WriteTagsToFile(fileTags[f], SyncPolicyMerge(f))
         /\ fileAttrs'[f] # fileAttrs[f] =>
              fileAttrs'[f] = WriteBfsAttributes(SyncPolicyMerge(f))
         /\ \A j \in 1..Len(SyncUpdates) :
              \A k \in {"title", "artist", "album", "genre", "year", "track"} :
                SyncUpdates[j][k] = SyncPolicyMerge(f)[k]]_vars

\* C39: every MSG_LOAD_CACHE is answered by one MSG_CACHE_LOADED, also when
\* media.cache is missing or cannot be decoded, and the map is then empty
C39_LoadAlwaysAnswered ==
  (call.op = "loadCache" /\ call.pc = "done") =>
    /\ call.loaded = 1
    /\ call.file.status # "ok" => call.entries = EmptyMap

\* C40: for every pair of TagData the record SmartMerge leaves in out equals
\* MergeMetadata(primary, secondary, fill-empty) in every field
C40_SmartMergeIsFillEmpty ==
  /\ (call.op = "merge" /\ call.pc = "done") =>
       \A f \in DOMAIN call.out :
         call.out[f] = MergeMetadata(call.primary, call.secondary,
                                     "CONFLICT_FILL_EMPTY")[f]
  /\ (call.op = "mergeMetadata" /\ call.pc = "done"
        /\ call.mode = "CONFLICT_FILL_EMPTY") =>
       \A f \in DOMAIN call.out :
         call.out[f] = SmartMerge(call.primary, call.secondary).out[f]
\* SmartMerge has filled one empty field from the secondary record and left
\* a conflicting field of the primary record alone
C40_Witness ==
  /\ call.op = "merge"
  /\ call.pc = "done"
  /\ call.hasConflict
  /\ \E f \in MergedFields :
       IsEmptyField(call.primary, f) /\ ~IsEmptyField(call.out, f)
  /\ \E g \in MergedFields :
       /\ ~IsEmptyField(call.primary, g) /\ ~IsEmptyField(call.secondary, g)
       /\ call.primary[g] # call.secondary[g]
       /\ call.out[g] = call.primary[g]

====
